---- MODULE Spec2Model ----
(***************************************************************************)
(* Model of the meteorological dashboard: the zustand store                *)
(* (store/dataStore.js), the loader and validator (utils/dataLoader.js),   *)
(* the canvas renderer (utils/mapRenderer.js), the projection helpers      *)
(* (utils/geoUtils.js) and the MapCanvas component that ties them.         *)
(***************************************************************************)
EXTENDS Integers, Sequences, FiniteSets, TLC

\* Number of loadData invocations a behaviour may hold (the first one is the
\* module-level call made when the store is created).
MaxLoads == 2

\* Largest day index a setDay call may carry.
MaxDay == 2

(***************************************************************************)
(* JavaScript values.  Every value is a record of the same shape so that   *)
(* any two of them can be compared: t is the kind, n the number of a       *)
(* "num" (or the sign of an "inf"), a the elements of an "arr".            *)
(***************************************************************************)
Num(x) == [t |-> "num", n |-> x, a |-> <<>>]
Null == [t |-> "null", n |-> 0, a |-> <<>>]
Undefined == [t |-> "undefined", n |-> 0, a |-> <<>>]
NaN == [t |-> "nan", n |-> 0, a |-> <<>>]
Inf(sign) == [t |-> "inf", n |-> sign, a |-> <<>>]
Arr(s) == [t |-> "arr", n |-> 0, a |-> s]
\* The outcome of an evaluation that raised a TypeError.
Throw == [t |-> "throw", n |-> 0, a |-> <<>>]

IsNullish(v) == v.t \in {"null", "undefined"}
\* !v
Falsy(v) == v.t \in {"null", "undefined", "nan"} \/ (v.t = "num" /\ v.n = 0)
\* isNaN(v) for the cell values of a grid
IsNaN(v) == v.t \in {"nan", "undefined"}
\* v.length
Length(v) == IF v.t = "arr" THEN Len(v.a) ELSE 0
\* v[i]: a TypeError on null and undefined, undefined outside an array
Index(v, i) ==
  IF v.t = "throw" \/ IsNullish(v) THEN Throw
  ELSE IF v.t = "arr" /\ i >= 0 /\ i < Len(v.a) THEN v.a[i + 1]
  ELSE Undefined
\* v?.[i]
OptIndex(v, i) == IF IsNullish(v) THEN Undefined ELSE Index(v, i)

\* A range object { min, max }, or the outcome of a call that returned none
\* or raised.
Range(lo, hi) == [t |-> "obj", min |-> lo, max |-> hi]
RangeThrow == [t |-> "throw", min |-> Null, max |-> Null]

\* An error string of the store, or null.
Str(s) == [t |-> "str", s |-> s]
NoError == [t |-> "null", s |-> ""]

(***************************************************************************)
(* The payloads the two fetches can deliver.                               *)
(***************************************************************************)
\* requiredVars of validateData; the same eleven names are the keys of
\* VARIABLES that the variable selector offers.
RequiredVars ==
  << "tmax", "tmin", "precip", "rh", "wind_avg", "wind_gust", "pressure_sfc",
     "geopotential_850", "geopotential_700", "geopotential_500",
     "geopotential_250" >>
Vars == {RequiredVars[i] : i \in 1..Len(RequiredVars)}
DataTypes == {"obs", "forecast", "difference"}

\* A 2 x 2 grid [[a, b], [c, d]].
G2(a, b, c, d) == Arr(<< Arr(<<a, b>>), Arr(<<c, d>>) >>)

ObsGood ==
  [v \in Vars |->
     CASE v = "tmax" ->
            Arr(<< G2(Num(30), Null, Num(28), Num(26)),
                   G2(Num(31), Num(30), Num(29), Num(27)),
                   G2(Num(33), Num(32), NaN, Num(28)) >>)
       [] v = "tmin" ->
            Arr(<< G2(Num(10), Num(5), Num(6), Num(7)),
                   G2(Null, Num(5), Num(6), Num(7)),
                   G2(Num(12), Num(5), Num(6), Num(7)) >>)
       [] v = "precip" ->
            Arr(<< G2(Num(0), Num(8), Null, Num(5)),
                   G2(Num(0), Num(0), Num(0), Num(0)),
                   G2(Num(3), Num(40), Num(0), Num(1)) >>)
       [] v = "rh" ->
            Arr(<< G2(Null, Null, Null, Null),
                   G2(Num(50), Num(60), Num(70), Num(80)),
                   G2(Num(55), Null, Null, Null) >>)
       [] OTHER ->
            Arr(<< G2(Num(4), Num(6), Num(8), Num(10)),
                   G2(Num(5), Num(7), Num(9), Num(11)),
                   G2(Num(6), Num(8), Num(10), Num(12)) >>)]

ForecastGood ==
  [v \in Vars |->
     CASE v = "tmax" ->
            Arr(<< G2(Num(29), Num(20), Null, Num(25)),
                   G2(Num(30), Num(31), Num(29), Num(20)),
                   G2(Num(30), Num(32), Num(27), Null) >>)
       [] v = "tmin" ->
            Arr(<< G2(Num(8), Num(5), Num(6), Null),
                   G2(Num(9), Num(4), Num(6), Num(7)),
                   G2(Null, Num(3), Num(6), Num(7)) >>)
       [] v = "precip" ->
            Arr(<< G2(Num(2), Num(0), Num(1), Num(5)),
                   G2(Num(0), Num(0), Num(0), Num(0)),
                   G2(Num(1), Num(10), Num(0), Num(3)) >>)
       [] v = "rh" ->
            Arr(<< G2(Num(40), Num(45), Num(50), Num(55)),
                   G2(Num(52), Num(58), Num(70), Num(85)),
                   G2(Null, Num(60), Num(65), Num(70)) >>)
       [] OTHER ->
            Arr(<< G2(Num(4), Num(6), Num(8), Num(10)),
                   G2(Num(5), Num(7), Num(9), Num(11)),
                   G2(Num(5), Num(9), Num(10), Num(2)) >>)]

\* metadata.variables of the payload: the static bounds of each variable
\* (precip has a lower bound and tmin an upper bound equal to 0).
VariablesMeta ==
  [v \in Vars |->
     CASE v = "tmax" -> [min |-> 15, max |-> 45]
       [] v = "tmin" -> [min |-> -25, max |-> 0]
       [] v = "precip" -> [min |-> 0, max |-> 50]
       [] v = "rh" -> [min |-> 20, max |-> 90]
       [] OTHER -> [min |-> 1, max |-> 25]]

MetaGood ==
  [t |-> "obj",
   lat |-> Arr(<<Num(-40), Num(-10)>>),
   lon |-> Arr(<<Num(110), Num(155)>>),
   times |-> Arr(<<Num(1), Num(2), Num(3)>>),
   variables |-> VariablesMeta]

\* The value of a meteorologicalData that is null.
NullData ==
  [t |-> "null",
   metadata |-> [t |-> "null", lat |-> Undefined, lon |-> Undefined,
                 times |-> Undefined, variables |-> VariablesMeta],
   obs |-> [v \in Vars |-> Undefined],
   forecast |-> [v \in Vars |-> Undefined]]

GoodData ==
  [t |-> "obj", metadata |-> MetaGood, obs |-> ObsGood, forecast |-> ForecastGood]

\* Grids that are not M x N: forecast.tmax[0] has one row, obs.tmax[1] and
\* forecast.tmax[1] have none, forecast.precip[0] has a one-cell second row.
RaggedData ==
  [GoodData EXCEPT
     !.obs["tmax"] = Arr(<< @.a[1], Arr(<<>>), @.a[3] >>),
     !.forecast["tmax"] = Arr(<< Arr(<< Arr(<<Num(29), Num(20)>>) >>), Arr(<<>>),
                                 @.a[3] >>),
     !.forecast["precip"] = Arr(<< Arr(<< Arr(<<Num(2), Num(0)>>), Arr(<<Num(1)>>) >>),
                                   @.a[2], @.a[3] >>)]

\* A variable with fewer than T grids: forecast.tmin holds days 0 and 1 only.
ShortData ==
  [GoodData EXCEPT !.forecast["tmin"] = Arr(<< @.a[1], @.a[2] >>)]

\* A finer grid: six latitudes, each grid of GoodData stacked three times.
TallGrid(grid) == Arr(grid.a \o grid.a \o grid.a)
TallData ==
  [GoodData EXCEPT
     !.metadata.lat = Arr(<<Num(-40), Num(-34), Num(-28), Num(-22), Num(-16), Num(-10)>>),
     !.obs = [v \in Vars |-> Arr([d \in 1..3 |-> TallGrid(@[v].a[d])])],
     !.forecast = [v \in Vars |-> Arr([d \in 1..3 |-> TallGrid(@[v].a[d])])]]

\* forecast lacks a required variable.
MissingVarData == [GoodData EXCEPT !.forecast["geopotential_250"] = Undefined]

\* metadata lacks times.
NoTimesData == [GoodData EXCEPT !.metadata.times = Undefined]

Payload(name) ==
  CASE name = "good" -> GoodData
    [] name = "ragged" -> RaggedData
    [] name = "short" -> ShortData
    [] name = "tall" -> TallData
    [] name = "missingvar" -> MissingVarData
    [] name = "notimes" -> NoTimesData

\* A boundary: null, or a GeoJSON feature collection.  features is the number
\* of features, geometry tells whether features[0] has one, polys are the
\* polygons of that geometry (one for a Polygon), each a list of rings of
\* [lon, lat] points, rest the polygons of the features after features[0].
NullBoundary ==
  [t |-> "null", features |-> 0, geometry |-> FALSE, type |-> "", polys |-> <<>>,
   rest |-> <<>>]

OuterRing == << <<110, -40>>, <<155, -40>>, <<155, -10>>, <<110, -10>> >>
HoleRing == << <<120, -30>>, <<130, -30>>, <<130, -20>> >>
IslandRing == << <<140, -40>>, <<150, -40>>, <<150, -35>> >>

PolygonBoundary ==
  [t |-> "obj", features |-> 1, geometry |-> TRUE, type |-> "Polygon",
   polys |-> << <<OuterRing, HoleRing>> >>, rest |-> <<>>]
MultiPolygonBoundary ==
  [t |-> "obj", features |-> 1, geometry |-> TRUE, type |-> "MultiPolygon",
   polys |-> << <<OuterRing, HoleRing>>, <<IslandRing>> >>, rest |-> <<>>]
\* A collection of two features: a polygon with a hole, then a polygon.
TwoFeatureBoundary ==
  [t |-> "obj", features |-> 2, geometry |-> TRUE, type |-> "Polygon",
   polys |-> << <<OuterRing, HoleRing>> >>, rest |-> << <<IslandRing>> >>]
\* features[0] carries no geometry.
NoGeometryBoundary ==
  [t |-> "obj", features |-> 1, geometry |-> FALSE, type |-> "", polys |-> <<>>,
   rest |-> <<>>]

BoundaryFile(name) ==
  CASE name = "polygon" -> PolygonBoundary
    [] name = "multipolygon" -> MultiPolygonBoundary
    [] name = "twofeatures" -> TwoFeatureBoundary
    [] name = "nogeometry" -> NoGeometryBoundary

\* The store holds references to the two parsed objects.  A reference is the
\* file the object was parsed from, the loadData invocation that parsed it,
\* and the in-place writes made to the object since (each the grid written to
\* obs or forecast of a variable and day).
NoData == [t |-> "null", file |-> "", load |-> 0, writes |-> <<>>]
Parsed(name, k) == [t |-> "obj", file |-> name, load |-> k, writes |-> <<>>]
NoBoundary == [t |-> "null", file |-> "", load |-> 0]
ParsedBoundary(name, k) == [t |-> "obj", file |-> name, load |-> k]

RECURSIVE ApplyWrites(_, _)
ApplyWrites(data, writes) ==
  IF writes = <<>> THEN data
  ELSE LET w == Head(writes)
           next == IF w.source = "obs"
                   THEN [data EXCEPT !.obs[w.variable] =
                           Arr([@.a EXCEPT ![w.day + 1] = w.grid])]
                   ELSE [data EXCEPT !.forecast[w.variable] =
                           Arr([@.a EXCEPT ![w.day + 1] = w.grid])]
       IN ApplyWrites(next, Tail(writes))

\* The objects behind the references.
Data(ref) == IF ref.t = "null" THEN NullData ELSE ApplyWrites(Payload(ref.file), ref.writes)
Boundary(ref) == IF ref.t = "null" THEN NullBoundary ELSE BoundaryFile(ref.file)

\* The files the server holds, fixed for a session.
Served ==
  { [data |-> "good", boundary |-> "polygon"],
    [data |-> "good", boundary |-> "nogeometry"],
    [data |-> "ragged", boundary |-> "polygon"],
    [data |-> "short", boundary |-> "multipolygon"],
    [data |-> "tall", boundary |-> "twofeatures"],
    [data |-> "missingvar", boundary |-> "polygon"],
    [data |-> "notimes", boundary |-> "polygon"] }

(***************************************************************************)
(* utils/dataLoader.js                                                     *)
(***************************************************************************)
\* loadMeteorologicalData raises after JSON.parse when one of the values its
\* three summary lines read (data.metadata.times.length, .lat.length,
\* .lon.length) is missing.
LoaderThrows(data) ==
  \/ data.t # "obj"
  \/ IsNullish(data.metadata.times)
  \/ IsNullish(data.metadata.lat)
  \/ IsNullish(data.metadata.lon)

validateData(data) ==
  /\ data.t = "obj"
  /\ ~Falsy(data.metadata.lat)
  /\ ~Falsy(data.metadata.lon)
  /\ ~Falsy(data.metadata.times)
  /\ \A k \in 1..Len(RequiredVars) :
       ~Falsy(data.obs[RequiredVars[k]]) /\ ~Falsy(data.forecast[RequiredVars[k]])

(***************************************************************************)
(* store/dataStore.js: the derived views                                   *)
(***************************************************************************)
\* The difference of two cells with a null operand taken as 0.
DifferenceCellNullAsZero(obs, fc) ==
  IF IsNaN(obs) \/ IsNaN(fc) THEN Null
  ELSE Num((IF obs.t = "null" THEN 0 ELSE obs.n) - (IF fc.t = "null" THEN 0 ELSE fc.n))

\* One cell of calculateDifference.
DifferenceCell(obs, fc) ==
  IF obs.t # "null" /\ fc.t # "null" /\ ~IsNaN(obs) /\ ~IsNaN(fc)
  THEN Num(obs.n - fc.n)
  ELSE Null

\* Whether row i of calculateDifference raises: obsData[i].length on a row
\* that is null, or fcData[i][j] on a forecast row that is null or undefined.
DifferenceRowThrows(obsData, fcData, i) ==
  LET obsRow == Index(obsData, i)
      fcRow == Index(fcData, i)
  IN \/ IsNullish(obsRow)
     \/ Length(obsRow) > 0 /\ IsNullish(fcRow)

calculateDifference(obsData, fcData) ==
  IF Falsy(obsData) \/ Falsy(fcData) THEN Null
  ELSE IF \E i \in 0..(Length(obsData) - 1) : DifferenceRowThrows(obsData, fcData, i)
  THEN Throw
  ELSE Arr([i \in 1..Length(obsData) |->
              Arr([j \in 1..Length(obsData.a[i]) |->
                     DifferenceCell(Index(Index(obsData, i - 1), j - 1),
                                    Index(Index(fcData, i - 1), j - 1))])])

getCurrentData(data, dataType, variable, day) ==
  IF data.t = "null" THEN Null
  ELSE LET obsData == OptIndex(data.obs[variable], day)
           fcData == OptIndex(data.forecast[variable], day)
       IN IF Falsy(obsData) \/ Falsy(fcData) THEN Null
          ELSE IF dataType = "obs" THEN obsData
          ELSE IF dataType = "forecast" THEN fcData
          ELSE IF dataType = "difference" THEN calculateDifference(obsData, fcData)
          ELSE Null

\* Number arithmetic on the values the range scan meets: finite numbers and
\* the two infinities.
JsNeg(x) == IF x.t \in {"num", "inf"} THEN [x EXCEPT !.n = 0 - x.n] ELSE x
JsAdd(x, y) ==
  IF x.t = "nan" \/ y.t = "nan" THEN NaN
  ELSE IF x.t = "num" /\ y.t = "num" THEN Num(x.n + y.n)
  ELSE IF x.t = "inf" /\ y.t = "inf" THEN (IF x.n = y.n THEN x ELSE NaN)
  ELSE IF x.t = "inf" THEN x
  ELSE y
JsSub(x, y) == JsAdd(x, JsNeg(y))
\* x * 10, Math.floor(x / 10) and Math.ceil(x / 10)
TimesTen(x) == IF x.t = "num" THEN Num(10 * x.n) ELSE x
FloorTenths(x) == IF x.t = "num" THEN Num(x.n \div 10) ELSE x
CeilTenths(x) == IF x.t = "num" THEN Num(0 - ((0 - x.n) \div 10)) ELSE x

\* The values the scan of getCurrentRange takes into min and max: the cells
\* that are neither null nor NaN.
ScannedCells(grid) ==
  UNION { { grid.a[i].a[j].n :
              j \in {c \in 1..Length(grid.a[i]) :
                       grid.a[i].a[c].t # "null" /\ ~IsNaN(grid.a[i].a[c])} } :
          i \in 1..Length(grid) }
SetMin(S) == CHOOSE x \in S : \A y \in S : x <= y
SetMax(S) == CHOOSE x \in S : \A y \in S : x >= y

\* The scanned minimum and maximum without the padding and the rounding.
DifferenceRangeUnpadded(grid) ==
  IF ScannedCells(grid) = {} THEN Range(Inf(1), Inf(-1))
  ELSE Range(Num(SetMin(ScannedCells(grid))), Num(SetMax(ScannedCells(grid))))

\* The dynamic range of a difference grid; the padding is kept in tenths.
DifferenceRange(grid) ==
  LET cells == ScannedCells(grid)
      min == IF cells = {} THEN Inf(1) ELSE Num(SetMin(cells))
      max == IF cells = {} THEN Inf(-1) ELSE Num(SetMax(cells))
      paddingTenths == JsSub(max, min)
  IN Range(FloorTenths(JsSub(TimesTen(min), paddingTenths)),
           CeilTenths(JsAdd(TimesTen(max), paddingTenths)))

\* getCurrentRange without its guard on a dataset that is absent: the static
\* branch then reads the metadata of null.
getCurrentRangeUnguarded(data, dataType, variable, day) ==
  IF dataType = "difference"
  THEN LET grid == getCurrentData(data, dataType, variable, day)
       IN IF grid.t = "throw" THEN RangeThrow
          ELSE IF Falsy(grid) THEN Range(Num(-10), Num(10))
          ELSE DifferenceRange(grid)
  ELSE IF data.t = "null" THEN RangeThrow
  ELSE Range(Num(data.metadata.variables[variable].min),
             Num(data.metadata.variables[variable].max))

getCurrentRange(data, dataType, variable, day) ==
  IF data.t = "null" THEN Range(Num(0), Num(1))
  ELSE IF dataType = "difference"
  THEN LET grid == getCurrentData(data, dataType, variable, day)
       IN IF grid.t = "throw" THEN RangeThrow
          ELSE IF Falsy(grid) THEN Range(Num(-10), Num(10))
          ELSE IF \E i \in 1..Length(grid) : IsNullish(grid.a[i]) THEN RangeThrow
          ELSE DifferenceRange(grid)
  ELSE LET varMeta == data.metadata.variables[variable]
       IN Range(Num(IF varMeta.min = 0 THEN 0 ELSE varMeta.min),
                Num(IF varMeta.max = 0 THEN 100 ELSE varMeta.max))

\* selectedPoint: null, or { lat, lon, latIdx, lonIdx }.
NoPoint == [t |-> "null", lat |-> 0, lon |-> 0, latIdx |-> 0, lonIdx |-> 0]
Point(lat, lon, latIdx, lonIdx) ==
  [t |-> "obj", lat |-> lat, lon |-> lon, latIdx |-> latIdx, lonIdx |-> lonIdx]

\* The result of getTimeSeriesData: null, or the three series.
NoSeries ==
  [t |-> "null", days |-> Undefined, lat |-> 0, lon |-> 0,
   obs |-> <<>>, forecast |-> <<>>, difference |-> <<>>]

\* v !== null && !isNaN(v) ? v : null
SeriesValue(v) == IF v.t # "null" /\ ~IsNaN(v) THEN v ELSE Null

\* getTimeSeriesData pushing only the values that are present.
getTimeSeriesDataCompacted(data, variable, selectedPoint) ==
  IF selectedPoint.t = "null" \/ data.t = "null" THEN NoSeries
  ELSE IF Falsy(data.obs[variable]) \/ Falsy(data.forecast[variable]) THEN NoSeries
  ELSE LET val(var, d) == SeriesValue(OptIndex(OptIndex(Index(var, d), selectedPoint.latIdx),
                                               selectedPoint.lonIdx))
           days == [d \in 1..Length(data.metadata.times) |-> d - 1]
           all(var) == [d \in 1..Len(days) |-> val(var, d - 1)]
       IN [t |-> "obj",
           days |-> data.metadata.times,
           lat |-> selectedPoint.lat,
           lon |-> selectedPoint.lon,
           obs |-> SelectSeq(all(data.obs[variable]), LAMBDA x : x.t # "null"),
           forecast |-> SelectSeq(all(data.forecast[variable]), LAMBDA x : x.t # "null"),
           difference |-> <<>>]

getTimeSeriesData(data, variable, selectedPoint) ==
  IF selectedPoint.t = "null" \/ data.t = "null" THEN NoSeries
  ELSE LET obsVar == data.obs[variable]
           fcVar == data.forecast[variable]
           obsVal(d) == OptIndex(OptIndex(Index(obsVar, d), selectedPoint.latIdx),
                                 selectedPoint.lonIdx)
           fcVal(d) == OptIndex(OptIndex(Index(fcVar, d), selectedPoint.latIdx),
                                selectedPoint.lonIdx)
           T == Length(data.metadata.times)
       IN IF Falsy(obsVar) \/ Falsy(fcVar) THEN NoSeries
          ELSE [t |-> "obj",
                days |-> data.metadata.times,
                lat |-> selectedPoint.lat,
                lon |-> selectedPoint.lon,
                obs |-> [d \in 1..T |-> SeriesValue(obsVal(d - 1))],
                forecast |-> [d \in 1..T |-> SeriesValue(fcVal(d - 1))],
                difference |-> [d \in 1..T |-> DifferenceCell(obsVal(d - 1), fcVal(d - 1))]]

\* state.meteorologicalData?.metadata || null
getMetadata(data) == IF data.t = "null" THEN NullData.metadata ELSE data.metadata

(***************************************************************************)
(* utils/geoUtils.js.  A coordinate that the code computes by a division   *)
(* is kept as the fraction num / den.                                      *)
(***************************************************************************)
Rat(num, den) == [num |-> num, den |-> den]
Abs(x) == IF x < 0 THEN 0 - x ELSE x

\* Math.min(...coords) and Math.max(...coords)
MinOf(coords) == SetMin({coords.a[k].n : k \in 1..Length(coords)})
MaxOf(coords) == SetMax({coords.a[k].n : k \in 1..Length(coords)})
calculateBounds(lats, lons) ==
  [minLat |-> MinOf(lats), maxLat |-> MaxOf(lats),
   minLon |-> MinOf(lons), maxLon |-> MaxOf(lons)]

\* latLonToPixel and pixelToLatLon in exact arithmetic, a coordinate being
\* the rational num / den; the doubles the engine computes are beside them
\* by the rounding of the operations (latLonToPixelDouble below).
latLonToPixel(lat, lon, bounds, canvasSize, padding) ==
  LET drawWidth == canvasSize.width - padding.left - padding.right
      drawHeight == canvasSize.height - padding.top - padding.bottom
      lonSpan == bounds.maxLon - bounds.minLon
      latSpan == bounds.maxLat - bounds.minLat
  IN [x |-> Rat(padding.left * lonSpan + (lon - bounds.minLon) * drawWidth, lonSpan),
      y |-> Rat(padding.top * latSpan + (latSpan - (lat - bounds.minLat)) * drawHeight,
                latSpan)]

pixelToLatLon(x, y, bounds, canvasSize, padding) ==
  LET drawWidth == canvasSize.width - padding.left - padding.right
      drawHeight == canvasSize.height - padding.top - padding.bottom
      lonSpan == bounds.maxLon - bounds.minLon
      latSpan == bounds.maxLat - bounds.minLat
  IN [lat |-> Rat(bounds.minLat * drawHeight + (drawHeight - (y - padding.top)) * latSpan,
                  drawHeight),
      lon |-> Rat(bounds.minLon * drawWidth + (x - padding.left) * lonSpan, drawWidth)]

\* Math.abs(coords[i] - target), times |target.den|
ScaledDistance(coords, i, target) == Abs(coords.a[i + 1].n * target.den - target.num)

\* The loop with <= for <: an index as near as the nearest so far replaces it.
RECURSIVE NearestScanLast(_, _, _, _)
NearestScanLast(coords, target, i, nearest) ==
  IF i >= Length(coords) THEN nearest
  ELSE IF nearest < 0
          \/ ScaledDistance(coords, i, target) <= ScaledDistance(coords, nearest, target)
       THEN NearestScanLast(coords, target, i + 1, i)
       ELSE NearestScanLast(coords, target, i + 1, nearest)

\* The loop of findNearestIndex from index i on, with the nearest index and
\* its distance so far (nearest = -1 while minDist is still Infinity).
RECURSIVE NearestScan(_, _, _, _)
NearestScan(coords, target, i, nearest) ==
  IF i >= Length(coords) THEN nearest
  ELSE IF nearest < 0
          \/ ScaledDistance(coords, i, target) < ScaledDistance(coords, nearest, target)
       THEN NearestScan(coords, target, i + 1, i)
       ELSE NearestScan(coords, target, i + 1, nearest)

\* A target with den = 0 is NaN or an infinity: no distance is below
\* Infinity and the index stays 0.
findNearestIndex(coords, target) ==
  IF target.den = 0 THEN 0
  ELSE LET nearest == NearestScan(coords, target, 0, 0 - 1)
       IN IF nearest < 0 THEN 0 ELSE nearest

(***************************************************************************)
(* IEEE-754 binary64 arithmetic, for the values geoUtils computes          *)
(***************************************************************************)
\* A finite double is sign * m * 2^e: neg its sign, m an odd natural below
\* 2^MantissaBits written in base 2^LimbBits, lowest limb first (<<>> for 0),
\* e an integer.  The exponent range is not modelled: no value here nears
\* 2^1024 or 2^-1022.
MantissaBits == 53
LimbBits == 15
Base == 2^LimbBits

\* a without its high limbs that are 0
Trim(a) ==
  LET used == {i \in 1..Len(a) : a[i] # 0}
  IN IF used = {} THEN <<>>
     ELSE SubSeq(a, 1, CHOOSE i \in used : \A j \in used : j <= i)

\* The number of bits of a (no high limb of a being 0).
BitLen(a) ==
  IF a = <<>> THEN 0
  ELSE (Len(a) - 1) * LimbBits + Cardinality({k \in 0..(LimbBits - 1) : 2^k <= a[Len(a)]})

\* Bit k of a, bit 0 the lowest.
Bit(a, k) ==
  IF k \div LimbBits >= Len(a) THEN 0
  ELSE (a[k \div LimbBits + 1] \div 2^(k % LimbBits)) % 2

\* Whether one of the k lowest bits of a is 1.
AnyLowBit(a, k) ==
  \E i \in 1..Len(a) :
    \/ i <= k \div LimbBits /\ a[i] # 0
    \/ i = k \div LimbBits + 1 /\ a[i] % 2^(k % LimbBits) # 0

\* a \div 2^s and a * 2^s
ShiftRight(a, s) ==
  LET q == s \div LimbBits
      r == s % LimbBits
      limb(i) == IF i >= 1 /\ i <= Len(a) THEN a[i] ELSE 0
  IN Trim([i \in 1..(IF Len(a) > q THEN Len(a) - q ELSE 0) |->
             (limb(i + q) \div 2^r) + ((limb(i + q + 1) % 2^r) * 2^(LimbBits - r))])
ShiftLeft(a, s) ==
  LET q == s \div LimbBits
      r == s % LimbBits
      limb(i) == IF i >= 1 /\ i <= Len(a) THEN a[i] ELSE 0
  IN Trim([i \in 1..(Len(a) + q + 1) |->
             ((limb(i - q) * 2^r) % Base) + (limb(i - q - 1) \div 2^(LimbBits - r))])

\* The number of low bits of a that are 0 before its lowest 1 (a not 0).
LowZeros(a) ==
  CHOOSE k \in 0..(Len(a) * LimbBits) : Bit(a, k) = 1 /\ ~AnyLowBit(a, k)

\* The double of sign neg and value a * 2^e, a below 2^MantissaBits.
Dbl(neg, a, e) ==
  IF Trim(a) = <<>> THEN [neg |-> FALSE, m |-> <<>>, e |-> 0]
  ELSE [neg |-> neg, m |-> ShiftRight(Trim(a), LowZeros(Trim(a))), e |-> e + LowZeros(Trim(a))]

\* The double of an integer below 2^30 in absolute value.
FromInt(n) ==
  Dbl(n < 0, <<(IF n < 0 THEN 0 - n ELSE n) % Base, (IF n < 0 THEN 0 - n ELSE n) \div Base>>, 0)

RECURSIVE AddLimbs(_, _, _)
AddLimbs(a, b, carry) ==
  IF a = <<>> /\ b = <<>> THEN (IF carry = 0 THEN <<>> ELSE <<carry>>)
  ELSE LET sum == (IF a = <<>> THEN 0 ELSE Head(a)) + (IF b = <<>> THEN 0 ELSE Head(b)) + carry
       IN <<(sum % Base)>>
            \o AddLimbs(IF a = <<>> THEN a ELSE Tail(a), IF b = <<>> THEN b ELSE Tail(b),
                        sum \div Base)

\* a - b for a >= b
RECURSIVE SubLimbs(_, _, _)
SubLimbs(a, b, borrow) ==
  IF a = <<>> THEN <<>>
  ELSE LET d == Head(a) - (IF b = <<>> THEN 0 ELSE Head(b)) - borrow
       IN <<(d % Base)>> \o SubLimbs(Tail(a), IF b = <<>> THEN b ELSE Tail(b),
                                   IF d < 0 THEN 1 ELSE 0)

\* Whether a < b (neither with a high limb that is 0).
Less(a, b) ==
  \/ Len(a) < Len(b)
  \/ /\ Len(a) = Len(b)
     /\ \E i \in 1..Len(a) : a[i] < b[i] /\ \A j \in (i + 1)..Len(a) : a[j] = b[j]

RECURSIVE MulLimb(_, _, _)
MulLimb(a, k, carry) ==
  IF a = <<>> THEN (IF carry = 0 THEN <<>> ELSE <<carry>>)
  ELSE <<(Head(a) * k + carry) % Base>> \o MulLimb(Tail(a), k, (Head(a) * k + carry) \div Base)

RECURSIVE MulLimbs(_, _)
MulLimbs(a, b) ==
  IF b = <<>> THEN <<>>
  ELSE AddLimbs(MulLimb(a, Head(b), 0), <<0>> \o MulLimbs(a, Tail(b)), 0)

\* <<a \div k, a % k>> for 0 < k < Base: the division from the highest limb
\* of a down, r the remainder of the limbs above.
RECURSIVE DivLimb(_, _, _)
DivLimb(a, k, r) ==
  IF a = <<>> THEN << <<>>, r >>
  ELSE LET cur == r * Base + a[Len(a)]
           rest == DivLimb(SubSeq(a, 1, Len(a) - 1), k, cur % k)
       IN << Append(rest[1], cur \div k), rest[2] >>

\* Round to nearest, ties to even: the double nearest to the exact value,
\* which is a * 2^e, or when sticky above a * 2^e by less than 2^e.
Round(neg, a, e, sticky) ==
  LET t == Trim(a)
      d == BitLen(t) - MantissaBits
      kept == ShiftRight(t, d)
      up == Bit(t, d - 1) = 1 /\ (sticky \/ AnyLowBit(t, d - 1) \/ Bit(kept, 0) = 1)
  IN IF d <= 0 THEN Dbl(neg, t, e)
     ELSE Dbl(neg, IF up THEN AddLimbs(kept, <<1>>, 0) ELSE kept, e + d)

DNeg(x) == IF x.m = <<>> THEN x ELSE [x EXCEPT !.neg = ~@]

DAdd(x, y) ==
  LET e == IF x.e < y.e THEN x.e ELSE y.e
      a == ShiftLeft(x.m, x.e - e)
      b == ShiftLeft(y.m, y.e - e)
  IN IF x.m = <<>> THEN y
     ELSE IF y.m = <<>> THEN x
     ELSE IF x.neg = y.neg THEN Round(x.neg, AddLimbs(a, b, 0), e, FALSE)
     ELSE IF a = b THEN FromInt(0)
     ELSE IF Less(b, a) THEN Round(x.neg, SubLimbs(a, b, 0), e, FALSE)
     ELSE Round(y.neg, SubLimbs(b, a, 0), e, FALSE)

DSub(x, y) == DAdd(x, DNeg(y))

DMul(x, y) == Round(x.neg # y.neg, MulLimbs(x.m, y.m), x.e + y.e, FALSE)

\* x / y for y an integer, not 0 and below 2^LimbBits in absolute value
\* (its odd part one limb): the quotient to MantissaBits + 2 bits at least,
\* the remainder telling whether it is exact.
DDiv(x, y) ==
  LET k == MantissaBits + 2 + LimbBits
      qr == DivLimb(ShiftLeft(x.m, k), y.m[1], 0)
  IN IF x.m = <<>> THEN FromInt(0)
     ELSE Round(x.neg # y.neg, qr[1], x.e - y.e - k, qr[2] # 0)

\* latLonToPixel and pixelToLatLon as the engine computes them, every
\* operation rounded to a double; lat, lon, x and y are doubles, the bounds,
\* the canvas size and the padding integers.
latLonToPixelDouble(lat, lon, bounds, canvasSize, padding) ==
  LET drawWidth == FromInt(canvasSize.width - padding.left - padding.right)
      drawHeight == FromInt(canvasSize.height - padding.top - padding.bottom)
      normalizedLon == DDiv(DSub(lon, FromInt(bounds.minLon)),
                            FromInt(bounds.maxLon - bounds.minLon))
      normalizedLat == DDiv(DSub(lat, FromInt(bounds.minLat)),
                            FromInt(bounds.maxLat - bounds.minLat))
  IN [x |-> DAdd(FromInt(padding.left), DMul(normalizedLon, drawWidth)),
      y |-> DAdd(FromInt(padding.top), DMul(DSub(FromInt(1), normalizedLat), drawHeight))]

\* pixelToLatLon without the flip of the y axis.
pixelToLatLonDoubleNoFlip(x, y, bounds, canvasSize, padding) ==
  LET drawWidth == FromInt(canvasSize.width - padding.left - padding.right)
      drawHeight == FromInt(canvasSize.height - padding.top - padding.bottom)
      normalizedLon == DDiv(DSub(x, FromInt(padding.left)), drawWidth)
      normalizedLat == DDiv(DSub(y, FromInt(padding.top)), drawHeight)
  IN [lat |-> DAdd(FromInt(bounds.minLat),
                   DMul(normalizedLat, FromInt(bounds.maxLat - bounds.minLat))),
      lon |-> DAdd(FromInt(bounds.minLon),
                   DMul(normalizedLon, FromInt(bounds.maxLon - bounds.minLon)))]

pixelToLatLonDouble(x, y, bounds, canvasSize, padding) ==
  LET drawWidth == FromInt(canvasSize.width - padding.left - padding.right)
      drawHeight == FromInt(canvasSize.height - padding.top - padding.bottom)
      normalizedLon == DDiv(DSub(x, FromInt(padding.left)), drawWidth)
      normalizedLat == DSub(FromInt(1), DDiv(DSub(y, FromInt(padding.top)), drawHeight))
  IN [lat |-> DAdd(FromInt(bounds.minLat),
                   DMul(normalizedLat, FromInt(bounds.maxLat - bounds.minLat))),
      lon |-> DAdd(FromInt(bounds.minLon),
                   DMul(normalizedLon, FromInt(bounds.maxLon - bounds.minLon)))]

(***************************************************************************)
(* utils/colorMaps.js and utils/mapRenderer.js                             *)
(***************************************************************************)
\* COLOR_MAP_CONFIGS: the ramp and the breakpoints of every variable, and the
\* difference ramp whose domain is null until a range gives it one.
Ints(s) == Arr([k \in 1..Len(s) |-> Rat(s[k], 1)])
TemperatureColors ==
  <<"#313695", "#4575b4", "#74add1", "#abd9e9", "#fee090", "#fdae61", "#f46d43", "#d73027">>
GeopotentialColors ==
  <<"#543005", "#8c510a", "#bf812d", "#dfc27d", "#f6e8c3", "#c7eae5", "#80cdc1", "#35978f">>
COLOR_MAP_CONFIGS ==
  [tmax |-> [colors |-> TemperatureColors,
             domain |-> Ints(<<15, 20, 25, 30, 35, 38, 41, 45>>)],
   tmin |-> [colors |-> TemperatureColors,
             domain |-> Ints(<<5, 10, 15, 18, 22, 25, 27, 30>>)],
   precip |-> [colors |-> <<"#f7fbff", "#deebf7", "#c6dbef", "#9ecae1", "#6baed6", "#4292c6",
                            "#2171b5", "#08519c">>,
               domain |-> Ints(<<0, 2, 5, 10, 15, 20, 30, 50>>)],
   rh |-> [colors |-> <<"#ffffd9", "#edf8b1", "#c7e9b4", "#7fcdbb", "#41b6c4", "#1d91c0",
                        "#225ea8", "#0c2c84">>,
           domain |-> Ints(<<20, 30, 40, 50, 60, 70, 80, 90>>)],
   wind_avg |-> [colors |-> <<"#f7fcf5", "#e5f5e0", "#c7e9c0", "#a1d99b", "#74c476", "#41ab5d",
                              "#238b45", "#005a32">>,
                 domain |-> Arr(<<Rat(1, 2), Rat(2, 1), Rat(3, 1), Rat(4, 1), Rat(6, 1),
                                  Rat(8, 1), Rat(10, 1), Rat(12, 1)>>)],
   wind_gust |-> [colors |-> <<"#fff5f0", "#fee0d2", "#fcbba1", "#fc9272", "#fb6a4a", "#ef3b2c",
                               "#cb181d", "#99000d">>,
                  domain |-> Ints(<<1, 5, 8, 12, 15, 18, 22, 25>>)],
   pressure_sfc |-> [colors |-> <<"#8c510a", "#bf812d", "#dfc27d", "#f6e8c3", "#c7eae5",
                                  "#80cdc1", "#35978f", "#01665e">>,
                     domain |-> Ints(<<1000, 1005, 1008, 1012, 1015, 1018, 1020, 1025>>)],
   geopotential_850 |-> [colors |-> GeopotentialColors,
                         domain |-> Ints(<<1400, 1430, 1460, 1490, 1510, 1540, 1570, 1600>>)],
   geopotential_700 |-> [colors |-> GeopotentialColors,
                         domain |-> Ints(<<2900, 2950, 2980, 3000, 3020, 3050, 3080, 3100>>)],
   geopotential_500 |-> [colors |-> GeopotentialColors,
                         domain |-> Ints(<<5400, 5450, 5500, 5550, 5580, 5620, 5660, 5700>>)],
   geopotential_250 |-> [colors |-> GeopotentialColors,
                         domain |-> Ints(<<10300, 10400, 10450, 10500, 10550, 10600, 10650,
                                           10700>>)],
   difference |-> [colors |-> <<"#2166ac", "#4393c3", "#92c5de", "#d1e5f0", "#f7f7f7",
                                "#fddbc7", "#f4a582", "#d6604d", "#b2182b">>,
                   domain |-> Null]]

\* Math.abs(x) and Math.max(x, y) of two numbers as rationals: NaN is 0/0,
\* Infinity 1/0; null counts as 0.
AbsRat(x) ==
  IF x.t = "num" THEN Rat(Abs(x.n), 1)
  ELSE IF x.t = "inf" THEN Rat(1, 0)
  ELSE IF x.t = "null" THEN Rat(0, 1)
  ELSE Rat(0, 0)
MaxRat(x, y) ==
  IF x = Rat(0, 0) \/ y = Rat(0, 0) THEN Rat(0, 0)
  ELSE IF x.den = 0 THEN x
  ELSE IF y.den = 0 THEN y
  ELSE IF x.num * y.den > y.num * x.den THEN x ELSE y
\* x * k for an integer k, x / k for a positive integer k, and -x
RatTimes(x, k) == Rat(x.num * k, x.den)
RatOver(x, k) == Rat(x.num, x.den * k)
RatNeg(x) == Rat(0 - x.num, x.den)

\* The difference domain laid from range.min to range.max instead of around 0.
getColorScaleFromMinToMax(variable, dataType, range) ==
  LET lo == IF range.t = "obj" /\ range.min.t = "num" THEN range.min.n ELSE 0
      hi == IF range.t = "obj" /\ range.max.t = "num" THEN range.max.n ELSE 1
  IN [colors |-> COLOR_MAP_CONFIGS.difference.colors,
      domain |-> Arr([k \in 1..9 |-> Rat(8 * lo + (k - 1) * (hi - lo), 8)])]

\* The scale of a variable and a data type: the colours of the ramp and the
\* breakpoints chroma pairs them with, one for one.
getColorScale(variable, dataType, range) ==
  LET configKey == IF dataType = "difference" THEN "difference" ELSE variable
  IN IF configKey \notin DOMAIN COLOR_MAP_CONFIGS
     THEN [colors |-> <<"#f7f7f7", "#2166ac">>, domain |-> Ints(<<0, 1>>)]
     ELSE LET config == COLOR_MAP_CONFIGS[configKey]
              absMax == MaxRat(AbsRat(range.min), AbsRat(range.max))
              step == RatOver(absMax, 4)
              domain == IF dataType = "difference" /\ range.t = "obj"
                        THEN Arr(<<RatNeg(absMax), RatTimes(RatNeg(step), 3),
                                   RatTimes(RatNeg(step), 2), RatNeg(step), Rat(0, 1), step,
                                   RatTimes(step, 2), RatTimes(step, 3), absMax>>)
                        ELSE config.domain
          IN [colors |-> config.colors,
              domain |-> IF domain.t = "null" THEN Ints(<<0, 1>>) ELSE domain]

\* The colour of a value: the ramp that getColorScale picks (the difference
\* ramp or the variable's), its dynamic domain bound absMax, and the value.
getColor(value, variable, dataType, range) ==
  [key |-> IF dataType = "difference" THEN "difference" ELSE variable,
   absMax |-> IF dataType = "difference"
              THEN (IF Abs(range.min.n) > Abs(range.max.n)
                    THEN Abs(range.min.n) ELSE Abs(range.max.n))
              ELSE 0,
   v |-> value.n]
StrokeStyle == [key |-> "#2d3748", absMax |-> 0, v |-> 0]

\* One canvas call: fillRect(x, y, w, h) under fillStyle color, or the
\* stroke of the closed path through the projected points of a ring.
FillRect(x, y, w, h, color) ==
  [op |-> "fillRect", x |-> x, y |-> y, w |-> w, h |-> h, color |-> color, path |-> <<>>]
StrokeRing(path) ==
  [op |-> "stroke", x |-> Rat(0, 1), y |-> Rat(0, 1), w |-> Rat(0, 1), h |-> Rat(0, 1),
   color |-> StrokeStyle, path |-> path]
\* A cell the grid loop skips.
NoOp ==
  [op |-> "skip", x |-> Rat(0, 1), y |-> Rat(0, 1), w |-> Rat(0, 1), h |-> Rat(0, 1),
   color |-> StrokeStyle, path |-> <<>>]

RenderPadding == [top |-> 10, bottom |-> 10, left |-> 10, right |-> 10]

drawRing(ring, bounds, canvasSize, padding) ==
  StrokeRing([k \in 1..Len(ring) |->
                latLonToPixel(ring[k][2], ring[k][1], bounds, canvasSize, padding)])

RECURSIVE Flatten(_)
Flatten(seqs) == IF seqs = <<>> THEN <<>> ELSE Head(seqs) \o Flatten(Tail(seqs))

\* The strokes of drawBoundary, or <<"throw">> when it reads the type of a
\* geometry that features[0] does not have.
BoundaryThrows(boundary) ==
  boundary.t = "obj" /\ boundary.features > 0 /\ ~boundary.geometry
drawBoundary(boundary, bounds, canvasSize, padding) ==
  IF boundary.t = "null" \/ boundary.features = 0 THEN <<>>
  ELSE IF boundary.type = "MultiPolygon"
  THEN LET rings == Flatten(boundary.polys)
       IN [k \in 1..Len(rings) |-> drawRing(rings[k], bounds, canvasSize, padding)]
  ELSE IF boundary.type = "Polygon"
  THEN LET rings == boundary.polys[1]
       IN [k \in 1..Len(rings) |-> drawRing(rings[k], bounds, canvasSize, padding)]
  ELSE <<>>

\* The fill of cell (i, j) with a null value drawn as 0.
CellFillNullAsZero(data, lats, lons, i, j, variable, dataType, range, bounds, canvasSize) ==
  LET value == Index(Index(data, i), j)
      p1 == latLonToPixel(lats.a[i + 1].n, lons.a[j + 1].n, bounds, canvasSize, RenderPadding)
      p2 == latLonToPixel(lats.a[i + 2].n, lons.a[j + 2].n, bounds, canvasSize, RenderPadding)
  IN IF value.t = "undefined" \/ IsNaN(value) THEN NoOp
     ELSE FillRect(p1.x, p2.y, Rat(p2.x.num - p1.x.num, p1.x.den),
                   Rat(p1.y.num - p2.y.num, p1.y.den),
                   getColor(IF value.t = "null" THEN Num(0) ELSE value,
                            variable, dataType, range))

\* The fill of cell (i, j) of the grid loop.
CellFill(data, lats, lons, i, j, variable, dataType, range, bounds, canvasSize) ==
  LET value == Index(Index(data, i), j)
      p1 == latLonToPixel(lats.a[i + 1].n, lons.a[j + 1].n, bounds, canvasSize, RenderPadding)
      p2 == latLonToPixel(lats.a[i + 2].n, lons.a[j + 2].n, bounds, canvasSize, RenderPadding)
  IN IF value.t = "null" \/ value.t = "undefined" \/ IsNaN(value) THEN NoOp
     ELSE FillRect(p1.x, p2.y, Rat(p2.x.num - p1.x.num, p1.x.den),
                   Rat(p1.y.num - p2.y.num, p1.y.den),
                   getColor(value, variable, dataType, range))

\* What a frame holds: the calls made on the cleared canvas, in order.
Frame(ops) == [t |-> "drawn", ops |-> ops]
FrameThrow == [t |-> "throw", ops |-> <<>>]
FrameNone == [t |-> "none", ops |-> <<>>]

\* renderMap on a present canvas of size canvasSize: FrameNone when it
\* returns at once, FrameThrow when it raises.
renderMap(canvasSize, data, metadata, variable, dataType, range, boundary) ==
  IF Falsy(data) THEN FrameNone
  ELSE LET lats == metadata.lat
           lons == metadata.lon
           rows == Length(lats) - 1
           cols == Length(lons) - 1
           bounds == calculateBounds(lats, lons)
           cell(k) == << (k - 1) \div cols, (k - 1) % cols >>
           count == IF rows > 0 /\ cols > 0 THEN rows * cols ELSE 0
       IN IF \E k \in 1..count : Index(Index(data, cell(k)[1]), cell(k)[2]).t = "throw"
          THEN FrameThrow
          ELSE IF BoundaryThrows(boundary) THEN FrameThrow
          ELSE Frame(
                 SelectSeq([k \in 1..count |->
                              CellFill(data, lats, lons, cell(k)[1], cell(k)[2], variable,
                                       dataType, range, bounds, canvasSize)],
                           LAMBDA o : o.op # "skip")
                 \o drawBoundary(boundary, bounds, canvasSize, RenderPadding))

(***************************************************************************)
(* State                                                                   *)
(***************************************************************************)
VARIABLES
  meteorologicalData,  \* store: the dataset, or NoData
  australiaBoundary,   \* store: the boundary, or NoBoundary
  isLoading,           \* store
  error,               \* store: NoError or Str(message)
  dataType,            \* store (Selection)
  variable,            \* store (Selection)
  day,                 \* store (Selection)
  selectedPoint,       \* store (Selection)
  served,              \* the two files the fetches read
  loads,               \* the loadData invocations: their two fetches and their position
  canvas,              \* the canvas of MapCanvas and what was drawn on it last
  ret,                 \* the value the last step returned, when it was a selector call
  call                 \* a function of geoUtils called on its own: arguments and result

store == <<meteorologicalData, australiaBoundary, isLoading, error>>
selection == <<dataType, variable, day, selectedPoint>>
vars == <<meteorologicalData, australiaBoundary, isLoading, error, dataType,
          variable, day, selectedPoint, served, loads, canvas, ret, call>>

\* What the fetches can end with besides a response: the message of the error
\* raised ("" for a thrown value that carries no message).
Failures == {"HTTP error! status: 404", ""}
TypeErrorMessage == "Cannot read properties of undefined"

\* The bounding rectangle of the container of the canvas.
ContainerRect == [width |-> 360, height |-> 240]
ClickPadding == [top |-> 20, bottom |-> 40, left |-> 40, right |-> 20]
\* Pointer positions relative to the canvas.
ClickXs == {10, 350}
ClickYs == {10, 186, 230}
\* The variables the user picks among in the model; the selector offers all
\* eleven.
SelectableVars == {"tmax", "tmin", "precip", "rh"}

NoRet ==
  [view |-> "none", grid |-> Null, range |-> Range(Null, Null), series |-> NoSeries,
   metadata |-> NullData.metadata]

(***************************************************************************)
(* components/map/MapCanvas: the canvas and the render effect              *)
(***************************************************************************)
Unmounted == [t |-> "unmounted", width |-> 0, height |-> 0, ops |-> <<>>]
\* A new canvas element.
NewCanvas == [t |-> "blank", width |-> 300, height |-> 150, ops |-> <<>>]
\* The effect raised: React removes the whole tree.
Crashed == [t |-> "crashed", width |-> 0, height |-> 0, ops |-> <<>>]

\* The canvas size that keeps the aspect ratio of the data; assigning it to
\* canvas.width / canvas.height truncates to an integer.
CanvasSize(metadata) ==
  LET latRange == MaxOf(metadata.lat) - MinOf(metadata.lat)
      lonRange == MaxOf(metadata.lon) - MinOf(metadata.lon)
  IN IF latRange <= 0 \/ lonRange <= 0 THEN [width |-> 0, height |-> 0]
     ELSE IF ContainerRect.width * latRange > ContainerRect.height * lonRange
     THEN [width |-> (ContainerRect.height * lonRange) \div latRange,
           height |-> ContainerRect.height]
     ELSE [width |-> ContainerRect.width,
           height |-> (ContainerRect.width * latRange) \div lonRange]

\* The canvas once the effect has sized it and renderMap has returned frame.
Painted(size, frame) ==
  IF frame.t = "throw" THEN Crashed
  ELSE [t |-> "drawn", width |-> size.width, height |-> size.height, ops |-> frame.ops]

\* The effect rendering whatever getCurrentData returned, none included.
EffectBodyUnguarded(size, grid, range, metadata, boundary, dt, v) ==
  IF grid.t = "throw" \/ range.t = "throw" \/ Falsy(grid) THEN Crashed
  ELSE Painted(size, renderMap(size, grid, metadata, v, dt, range, boundary))

\* The effect from the sizing of the canvas on.
EffectBody(size, grid, range, metadata, boundary, dt, v) ==
  IF grid.t = "throw" \/ range.t = "throw" THEN Crashed
  ELSE IF Falsy(grid)
  THEN [t |-> "blank", width |-> size.width, height |-> size.height, ops |-> <<>>]
  ELSE Painted(size, renderMap(size, grid, metadata, v, dt, range, boundary))

\* The effect drawing over what canvas cv holds, nothing cleared.
MapCanvasEffectNoClear(cv, data, boundary, dt, v, d) ==
  IF data.t = "null" THEN cv
  ELSE LET drawn == EffectBody(CanvasSize(data.metadata), getCurrentData(data, dt, v, d),
                               getCurrentRange(data, dt, v, d), data.metadata, boundary, dt, v)
       IN IF drawn.t = "drawn" THEN [drawn EXCEPT !.ops = cv.ops \o @] ELSE drawn

\* The body of the effect on canvas cv.
MapCanvasEffect(cv, data, boundary, dt, v, d) ==
  IF data.t = "null" THEN cv
  ELSE EffectBody(CanvasSize(data.metadata), getCurrentData(data, dt, v, d),
                  getCurrentRange(data, dt, v, d), data.metadata, boundary, dt, v)

\* The commit of a layout that shows MapCanvas whatever isLoading and error.
CommitAlwaysShown(data, boundary, loading, err, dt, v, d) ==
  IF canvas.t = "crashed" THEN canvas
  ELSE IF canvas.t = "unmounted"
          \/ <<data.t, data.load, boundary, dt, v, d>>
             # <<meteorologicalData.t, meteorologicalData.load, australiaBoundary,
                 dataType, variable, day>>
  THEN MapCanvasEffect(IF canvas.t = "unmounted" THEN NewCanvas ELSE canvas,
                       Data(data), Boundary(boundary), dt, v, d)
  ELSE canvas

\* The canvas after React has committed a store change: DashboardLayout shows
\* MapCanvas only when the store is neither loading nor in error, and the
\* effect runs on mount and when one of its dependencies changed.
Commit(data, boundary, loading, err, dt, v, d) ==
  IF canvas.t = "crashed" THEN canvas
  ELSE IF loading \/ err # NoError THEN Unmounted
  ELSE IF canvas.t = "unmounted"
          \/ <<data.t, data.load, boundary, dt, v, d>>
             # <<meteorologicalData.t, meteorologicalData.load, australiaBoundary,
                 dataType, variable, day>>
  THEN MapCanvasEffect(IF canvas.t = "unmounted" THEN NewCanvas ELSE canvas,
                       Data(data), Boundary(boundary), dt, v, d)
  ELSE canvas

\* The dashboard (controls and map) is on screen.
Mounted == canvas.t \in {"blank", "drawn"}

(***************************************************************************)
(* store/dataStore.js: state and actions                                   *)
(***************************************************************************)
\* An invocation of loadData: each fetch is "pending", "ok" (resolved, waited
\* for by Promise.all) or "settled" (nothing waits for its result any more);
\* pc is "await" until the code after the await has run.
NewLoad == [pc |-> "await", meteo |-> "pending", boundary |-> "pending"]
Settled(fetch) == IF fetch = "pending" THEN "pending" ELSE "settled"
Done(load) ==
  [pc |-> "done", meteo |-> Settled(load.meteo), boundary |-> Settled(load.boundary)]

\* No function of geoUtils has been called on its own.
NoCall ==
  [fn |-> "none", coords |-> Arr(<<>>), target |-> Rat(0, 1), index |-> 0,
   padding |-> RenderPadding, at |-> <<0, 0>>,
   mid |-> <<FromInt(0), FromInt(0)>>, back |-> <<FromInt(0), FromInt(0)>>,
   scaleOf |-> <<"", "", Null>>, scale |-> [colors |-> <<>>, domain |-> Arr(<<>>)]]

Init ==
  /\ meteorologicalData = NoData
  /\ australiaBoundary = NoBoundary
  /\ isLoading = TRUE
  /\ error = NoError
  /\ dataType = "obs"
  /\ variable = "tmax"
  /\ day = 0
  /\ selectedPoint = NoPoint
  /\ served \in Served
  /\ loads = <<NewLoad>>
  /\ canvas = Unmounted
  /\ ret = NoRet
  /\ call = NoCall

\* set(s) of the four data fields, and the commit that follows.
SetStore(s) ==
  /\ meteorologicalData' = s.data
  /\ australiaBoundary' = s.boundary
  /\ isLoading' = s.loading
  /\ error' = s.err
  /\ canvas' = Commit(s.data, s.boundary, s.loading, s.err, dataType, variable, day)

\* loadData up to its await.
LoadData ==
  /\ Len(loads) < MaxLoads
  /\ SetStore([data |-> meteorologicalData, boundary |-> australiaBoundary,
               loading |-> TRUE, err |-> NoError])
  /\ loads' = Append(loads, NewLoad)
  /\ ret' = NoRet
  /\ UNCHANGED <<selection, served, call>>

\* A catch block that stores the message and leaves isLoading as it is.
LoadFailedStillLoading(message) ==
  [data |-> meteorologicalData, boundary |-> australiaBoundary, loading |-> isLoading,
   err |-> Str(IF message = "" THEN "Failed to load data" ELSE message)]

\* What the catch block of loadData sets.
LoadFailed(message) ==
  [data |-> meteorologicalData, boundary |-> australiaBoundary, loading |-> FALSE,
   err |-> Str(IF message = "" THEN "Failed to load data" ELSE message)]

\* loadData storing what it fetched without validating it.
LoadFulfilledUnvalidated(k) ==
  [data |-> Parsed(served.data, k), boundary |-> ParsedBoundary(served.boundary, k),
   loading |-> FALSE, err |-> NoError]

\* What invocation k of loadData sets after Promise.all has fulfilled.
LoadFulfilled(k) ==
  IF validateData(Payload(served.data))
     THEN [data |-> Parsed(served.data, k), boundary |-> ParsedBoundary(served.boundary, k),
           loading |-> FALSE, err |-> NoError]
     ELSE LoadFailed("Data validation failed")

\* A fetch of invocation k settles: Promise.all rejects with the first
\* failure and fulfils once both fetches have resolved, and the code after
\* the await runs then; the later results of an invocation are dropped.
Settles(k, fetch, other, failed, message) ==
  /\ loads[k][fetch] = "pending"
  /\ IF loads[k].pc = "await" /\ ~failed /\ loads[k][other] # "ok"
     THEN /\ loads' = [loads EXCEPT ![k][fetch] = "ok"]
          /\ UNCHANGED <<store, canvas>>
     ELSE /\ loads' = [loads EXCEPT ![k] = Done([@ EXCEPT ![fetch] = "ok"])]
          /\ IF loads[k].pc = "done"
             THEN UNCHANGED <<store, canvas>>
             ELSE SetStore(IF failed THEN LoadFailed(message) ELSE LoadFulfilled(k))
  /\ ret' = NoRet
  /\ UNCHANGED <<selection, served, call>>

\* loadMeteorologicalData of invocation k settles; outcome is "ok" for a
\* response that inflates and parses, or the message of the failure.
MeteoSettles(k, outcome) ==
  Settles(k, "meteo", "boundary",
          outcome # "ok" \/ LoaderThrows(Payload(served.data)),
          IF outcome # "ok" THEN outcome ELSE TypeErrorMessage)

\* loadAustraliaBoundary of invocation k settles.
BoundarySettles(k, outcome) ==
  Settles(k, "boundary", "meteo", outcome # "ok", outcome)

\* The selector of the data type picks dt.
SetDataType(dt) ==
  /\ Mounted
  /\ dataType' = dt
  /\ canvas' = Commit(meteorologicalData, australiaBoundary, isLoading, error,
                      dt, variable, day)
  /\ ret' = NoRet
  /\ UNCHANGED <<store, variable, day, selectedPoint, served, call, loads>>

\* setVariable with the effect of MapCanvas not run for the new variable.
SetVariableStaleRender(v) ==
  /\ Mounted
  /\ variable' = v
  /\ canvas' = canvas
  /\ ret' = NoRet
  /\ UNCHANGED <<store, dataType, day, selectedPoint, served, call, loads>>

SetVariable(v) ==
  /\ Mounted
  /\ variable' = v
  /\ canvas' = Commit(meteorologicalData, australiaBoundary, isLoading, error,
                      dataType, v, day)
  /\ ret' = NoRet
  /\ UNCHANGED <<store, dataType, day, selectedPoint, served, call, loads>>

\* setDay that also drops the selected point.
SetDayClearingPoint(d) ==
  /\ Mounted
  /\ day' = d
  /\ selectedPoint' = NoPoint
  /\ canvas' = Commit(meteorologicalData, australiaBoundary, isLoading, error,
                      dataType, variable, d)
  /\ ret' = NoRet
  /\ UNCHANGED <<store, dataType, variable, served, call, loads>>

SetDay(d) ==
  /\ Mounted
  /\ day' = d
  /\ canvas' = Commit(meteorologicalData, australiaBoundary, isLoading, error,
                      dataType, variable, d)
  /\ ret' = NoRet
  /\ UNCHANGED <<store, dataType, variable, selectedPoint, served, call, loads>>

\* setSelectedPoint that also goes back to day 0.
setSelectedPointResettingDay(point) ==
  /\ selectedPoint' = point
  /\ day' = 0
  /\ canvas' = Commit(meteorologicalData, australiaBoundary, isLoading, error,
                      dataType, variable, 0)
  /\ ret' = NoRet
  /\ UNCHANGED <<store, dataType, variable, served, call, loads>>

setSelectedPoint(point) ==
  /\ selectedPoint' = point
  /\ canvas' = Commit(meteorologicalData, australiaBoundary, isLoading, error,
                      dataType, variable, day)
  /\ ret' = NoRet
  /\ UNCHANGED <<store, dataType, variable, day, served, call, loads>>

\* The point of the click itself, floored to whole degrees, with the indices
\* of the nearest grid point.
ClickedPointUnsnapped(x, y, lats, lons) ==
  LET p == pixelToLatLon(x, y, calculateBounds(lats, lons),
                         [width |-> canvas.width, height |-> canvas.height],
                         ClickPadding)
  IN Point(p.lat.num \div p.lat.den, p.lon.num \div p.lon.den,
           findNearestIndex(lats, p.lat), findNearestIndex(lons, p.lon))

\* The point of the grid nearest to the position (x, y) of the canvas.
ClickedPoint(x, y, lats, lons) ==
  LET p == pixelToLatLon(x, y, calculateBounds(lats, lons),
                         [width |-> canvas.width, height |-> canvas.height],
                         ClickPadding)
      latIdx == findNearestIndex(lats, p.lat)
      lonIdx == findNearestIndex(lons, p.lon)
  IN Point(lats.a[latIdx + 1].n, lons.a[lonIdx + 1].n, latIdx, lonIdx)

\* A click on the canvas at (x, y).
HandleClick(x, y) ==
  /\ Mounted
  /\ meteorologicalData.t # "null"
  /\ setSelectedPoint(ClickedPoint(x, y, Data(meteorologicalData).metadata.lat,
                                   Data(meteorologicalData).metadata.lon))

ClearSelectedPoint == setSelectedPoint(NoPoint)

\* getCurrentData computing the difference into the obs grid itself.
GetCurrentDataInPlace ==
  /\ Mounted
  /\ ret' = [NoRet EXCEPT !.view = "getCurrentData",
                          !.grid = getCurrentData(Data(meteorologicalData), dataType, variable, day)]
  /\ meteorologicalData' =
       IF dataType = "difference" /\ ret'.grid.t = "arr"
       THEN [meteorologicalData EXCEPT
               !.writes = Append(@, [source |-> "obs", variable |-> variable, day |-> day,
                                     grid |-> ret'.grid])]
       ELSE meteorologicalData
  /\ UNCHANGED <<australiaBoundary, isLoading, error, selection, served, call, loads, canvas>>

\* A component of the dashboard calls a selector.
GetCurrentData ==
  /\ Mounted
  /\ ret' = [NoRet EXCEPT !.view = "getCurrentData",
                          !.grid = getCurrentData(Data(meteorologicalData), dataType, variable, day)]
  /\ UNCHANGED <<store, selection, served, call, loads, canvas>>

GetCurrentRange ==
  /\ Mounted
  /\ ret' = [NoRet EXCEPT !.view = "getCurrentRange",
                          !.range = getCurrentRange(Data(meteorologicalData), dataType, variable, day)]
  /\ UNCHANGED <<store, selection, served, call, loads, canvas>>

GetTimeSeriesData ==
  /\ Mounted
  /\ ret' = [NoRet EXCEPT !.view = "getTimeSeriesData",
                          !.series = getTimeSeriesData(Data(meteorologicalData), variable,
                                                       selectedPoint)]
  /\ UNCHANGED <<store, selection, served, call, loads, canvas>>

GetMetadata ==
  /\ Mounted
  /\ ret' = [NoRet EXCEPT !.view = "getMetadata",
                          !.metadata = getMetadata(Data(meteorologicalData))]
  /\ UNCHANGED <<store, selection, served, call, loads, canvas>>

Next ==
  \/ LoadData
  \/ \E k \in 1..Len(loads), outcome \in {"ok"} \cup Failures : MeteoSettles(k, outcome)
  \/ \E k \in 1..Len(loads), outcome \in {"ok"} \cup Failures : BoundarySettles(k, outcome)
  \/ \E dt \in DataTypes : SetDataType(dt)
  \/ \E v \in SelectableVars : SetVariable(v)
  \/ \E d \in 0..MaxDay : SetDay(d)
  \/ \E x \in ClickXs, y \in ClickYs : HandleClick(x, y)
  \/ ClearSelectedPoint
  \/ GetCurrentData
  \/ GetCurrentRange
  \/ GetTimeSeriesData
  \/ GetMetadata

Spec == Init /\ [][Next]_vars

\* The store when every request is answered: each fetch of each invocation
\* of loadData settles in the end, with a response or with a failure, and
\* the code after the await runs as soon as Promise.all has settled.
FetchesSettle ==
  \A k \in 1..MaxLoads :
    /\ WF_vars(k <= Len(loads) /\ \E outcome \in {"ok"} \cup Failures : MeteoSettles(k, outcome))
    /\ WF_vars(k <= Len(loads)
               /\ \E outcome \in {"ok"} \cup Failures : BoundarySettles(k, outcome))
LiveSpec == Init /\ [][Next]_vars /\ FetchesSettle

(***************************************************************************)
(* geoUtils on its own: the functions called on arguments of bounded sets  *)
(***************************************************************************)
\* The longest coordinate array and the values of its elements.
MaxCoords == 4
CoordValues == {0, 10, 20, 30}
\* The targets: numbers between, on and beside the coordinates, halfway
\* between two of them, NaN (0/0) and Infinity (1/0).
Targets == {Rat(17, 1), Rat(15, 1), Rat(25, 2), Rat(20, 1), Rat(0 - 3, 1), Rat(45, 1),
            Rat(0, 0), Rat(1, 0)}

CallFindNearestIndex(coords, target) ==
  /\ call = NoCall
  /\ call' = [NoCall EXCEPT !.fn = "findNearestIndex", !.coords = coords, !.target = target,
                            !.index = findNearestIndex(coords, target)]
  /\ UNCHANGED <<store, selection, served, loads, canvas, ret>>

\* The bounds and the canvas of the projections, the paddings (the one of
\* handleClick, also the default, and the one of renderMap), the pixels and
\* the points inside the bounds that are projected there and back.
GeoBounds == calculateBounds(MetaGood.lat, MetaGood.lon)
Paddings == {ClickPadding, RenderPadding}
PixelXs == {40, 41, 123, 340}
PixelYs == {20, 21, 100, 200}
PointLats == {0 - 40, 0 - 37, 0 - 20, 0 - 10}
PointLons == {110, 117, 130, 155}

\* latLonToPixel(...pixelToLatLon(x, y))
CallPixelRoundTrip(x, y, padding) ==
  /\ call = NoCall
  /\ LET p == pixelToLatLonDouble(FromInt(x), FromInt(y), GeoBounds, ContainerRect, padding)
         q == latLonToPixelDouble(p.lat, p.lon, GeoBounds, ContainerRect, padding)
     IN call' = [NoCall EXCEPT !.fn = "pixelRoundTrip", !.padding = padding,
                               !.at = <<x, y>>, !.mid = <<p.lat, p.lon>>,
                               !.back = <<q.x, q.y>>]
  /\ UNCHANGED <<store, selection, served, loads, canvas, ret>>

\* pixelToLatLon(...latLonToPixel(lat, lon))
CallLatLonRoundTrip(lat, lon, padding) ==
  /\ call = NoCall
  /\ LET q == latLonToPixelDouble(FromInt(lat), FromInt(lon), GeoBounds, ContainerRect,
                                  padding)
         p == pixelToLatLonDouble(q.x, q.y, GeoBounds, ContainerRect, padding)
     IN call' = [NoCall EXCEPT !.fn = "latLonRoundTrip", !.padding = padding,
                               !.at = <<lat, lon>>, !.mid = <<q.x, q.y>>,
                               !.back = <<p.lat, p.lon>>]
  /\ UNCHANGED <<store, selection, served, loads, canvas, ret>>

\* The ranges getColorScale is called with: none, and min and max on either
\* side of zero, equal, and both zero.
ScaleVariables == {"tmax", "wind_avg", "dewpoint"}
ScaleRanges ==
  {Null} \cup {Range(Num(lo), Num(hi)) : lo \in {0 - 9, 0 - 3, 0, 2}, hi \in {0 - 1, 0, 3, 9}}

\* getColorScale(variable, dataType, range)
CallGetColorScale(v, dt, range) ==
  /\ call = NoCall
  /\ call' = [NoCall EXCEPT !.fn = "getColorScale", !.scaleOf = <<v, dt, range>>,
                            !.scale = getColorScale(v, dt, range)]
  /\ UNCHANGED <<store, selection, served, loads, canvas, ret>>

GeoNext ==
  \/ \E n \in 1..MaxCoords, target \in Targets :
       \E f \in [1..n -> CoordValues] :
         CallFindNearestIndex(Arr([k \in 1..n |-> Num(f[k])]), target)
  \/ \E x \in PixelXs, y \in PixelYs, padding \in Paddings : CallPixelRoundTrip(x, y, padding)
  \/ \E lat \in PointLats, lon \in PointLons, padding \in Paddings :
       CallLatLonRoundTrip(lat, lon, padding)
  \/ \E v \in ScaleVariables, dt \in {"obs", "forecast", "difference"}, range \in ScaleRanges :
       CallGetColorScale(v, dt, range)

\* The store as constructed, no function called yet.
GeoInit ==
  /\ meteorologicalData = NoData
  /\ australiaBoundary = NoBoundary
  /\ isLoading = TRUE
  /\ error = NoError
  /\ dataType = "obs"
  /\ variable = "tmax"
  /\ day = 0
  /\ selectedPoint = NoPoint
  /\ served = [data |-> "good", boundary |-> "polygon"]
  /\ loads = <<NewLoad>>
  /\ canvas = Unmounted
  /\ ret = NoRet
  /\ call = NoCall

GeoSpec == GeoInit /\ [][GeoNext]_vars

(***************************************************************************)
(* Properties                                                              *)
(***************************************************************************)
\* The selected points the properties quantify over.
SomePoints == {NoPoint, Point(-40, 110, 0, 0), Point(-10, 155, 1, 1)}

\* C1: each Selection mutator replaces exactly one field (setDataType only
\* dataType, setVariable only variable, setDay only day, setSelectedPoint and
\* clearSelectedPoint only selectedPoint) and leaves the other Selection
\* fields, the dataset, the boundary, isLoading and error unchanged; a step
\* of loadData or of a selector (getCurrentData, getCurrentRange,
\* getTimeSeriesData, getMetadata) changes no Selection field.
C1_MutatorFrame ==
  [][ /\ \A dt \in DataTypes \ {dataType} :
           SetDataType(dt) => dataType' = dt /\ UNCHANGED <<store, variable, day, selectedPoint>>
      /\ \A v \in SelectableVars \ {variable} :
           SetVariable(v) => variable' = v /\ UNCHANGED <<store, dataType, day, selectedPoint>>
      /\ \A d \in (0..MaxDay) \ {day} :
           SetDay(d) => day' = d /\ UNCHANGED <<store, dataType, variable, selectedPoint>>
      /\ selectedPoint' # selectedPoint
           => /\ (\E x \in ClickXs, y \in ClickYs : HandleClick(x, y)) \/ ClearSelectedPoint
              /\ UNCHANGED <<store, dataType, variable, day>>
      /\ (store' # store \/ loads' # loads \/ ret'.view # "none") => UNCHANGED selection
      /\ selection' # selection
           => Cardinality({f \in 1..4 : selection'[f] # selection[f]}) = 1
    ]_vars

\* Every mutator has acted on a loaded dataset.
C1_Witness ==
  /\ meteorologicalData.t = "obj"
  /\ dataType = "difference"
  /\ variable = "precip"
  /\ day = 1
  /\ selectedPoint.t = "obj"

\* C2 as stated: whenever the store holds the error of a failed load, the
\* three derived views return none (no grid, no range, no series).
C2_ViewsNoneOnError ==
  error # NoError =>
    /\ getCurrentData(Data(meteorologicalData), dataType, variable, day) = Null
    /\ getCurrentRange(Data(meteorologicalData), dataType, variable, day).t = "null"
    /\ getTimeSeriesData(Data(meteorologicalData), variable, selectedPoint) = NoSeries

\* C2, amended: whenever the store holds the error of a failed load and no
\* dataset (no load has succeeded), getCurrentData and getTimeSeriesData
\* return none for every selection, and getCurrentRange returns the range
\* { min: 0, max: 1 }.
C2_AbsentDatasetViews ==
  error # NoError /\ meteorologicalData.t = "null" =>
    \A dt \in DataTypes, v \in Vars, d \in 0..MaxDay :
      /\ getCurrentData(Data(meteorologicalData), dt, v, d) = Null
      /\ getCurrentRange(Data(meteorologicalData), dt, v, d) = Range(Num(0), Num(1))
      /\ \A p \in SomePoints :
           getTimeSeriesData(Data(meteorologicalData), v, p) = NoSeries

\* The only load has failed and the store holds its error and no dataset.
C2_Witness ==
  /\ error # NoError
  /\ ~isLoading
  /\ meteorologicalData.t = "null"
  /\ \A k \in 1..Len(loads) : loads[k].pc = "done"

\* The code after the await of invocation k runs in this step.
Continues(k) == loads[k].pc = "await" /\ loads'[k].pc = "done"
\* This step stores the dataset and the boundary that invocation k parsed.
Writes(k) ==
  /\ meteorologicalData' = Parsed(served.data, k)
  /\ australiaBoundary' = ParsedBoundary(served.boundary, k)

\* C3: a load is never partially consumed.  loadData writes
\* meteorologicalData and australiaBoundary together in one step, only after
\* both fetches succeeded and validation passed; when a fetch fails or the
\* validation fails, that load writes neither field and leaves isLoading
\* false and error set.
C3_LoadAllOrNothing ==
  [][ /\ \A k \in 1..Len(loads) :
           Continues(k) =>
             \/ /\ Writes(k)
                /\ ~isLoading' /\ error' = NoError
                /\ validateData(Payload(served.data))
                /\ "ok" \in {loads[k].meteo, loads[k].boundary}
                /\ loads'[k].meteo = "settled" /\ loads'[k].boundary = "settled"
             \/ /\ UNCHANGED <<meteorologicalData, australiaBoundary>>
                /\ ~isLoading' /\ error' # NoError
      /\ \A k \in 1..Len(loads), outcome \in Failures :
           Continues(k) /\ (MeteoSettles(k, outcome) \/ BoundarySettles(k, outcome))
             => UNCHANGED <<meteorologicalData, australiaBoundary>> /\ error' # NoError
      /\ ~validateData(Payload(served.data))
           => UNCHANGED <<meteorologicalData, australiaBoundary>>
      /\ (meteorologicalData' # meteorologicalData \/ australiaBoundary' # australiaBoundary)
           => \E k \in 1..Len(loads) : Continues(k) /\ Writes(k)
    ]_vars

\* A load has failed after an earlier one had stored its dataset.
C3_Witness ==
  /\ error # NoError
  /\ ~isLoading
  /\ meteorologicalData.t = "obj"
  /\ australiaBoundary.t = "obj"

\* Whether grid is an array of M rows of N cells.
GridShaped(grid, M, N) ==
  /\ grid.t = "arr"
  /\ Len(grid.a) = M
  /\ \A i \in 1..M : grid.a[i].t = "arr" /\ Len(grid.a[i].a) = N
\* Whether obs and forecast hold, for each of the eleven variables, T grids
\* of M x N cells (M, N and T the lengths of metadata.lat, .lon and .times).
WellShaped(data) ==
  /\ data.t = "obj"
  /\ \A v \in Vars :
       /\ Length(data.obs[v]) = Length(data.metadata.times)
       /\ Length(data.forecast[v]) = Length(data.metadata.times)
       /\ \A d \in 1..Length(data.metadata.times) :
            /\ GridShaped(data.obs[v].a[d], Length(data.metadata.lat), Length(data.metadata.lon))
            /\ GridShaped(data.forecast[v].a[d], Length(data.metadata.lat),
                          Length(data.metadata.lon))

\* C4 as stated: when the fetched payload has a structural mismatch (a grid
\* that is not M x N, a variable without exactly T grids, a variable or a
\* dimension missing), the dataset stays absent, nothing is rendered, and a
\* load that has finished leaves error set.
C4_MismatchRejected ==
  ~WellShaped(Payload(served.data)) =>
    /\ meteorologicalData.t = "null"
    /\ canvas.t \notin {"drawn", "crashed"}
    /\ (~isLoading => error # NoError)

\* C5 as stated: on a dataset that loadData has accepted, for every selection
\* (dataType among the three, variable among the eleven, day below T, a
\* point set by a click), getCurrentData, getCurrentRange, getTimeSeriesData
\* and renderMap complete without raising an error.
C5_NoThrow ==
  /\ canvas.t # "crashed"
  /\ meteorologicalData.t = "obj" =>
       /\ getCurrentData(Data(meteorologicalData), dataType, variable, day).t # "throw"
       /\ getCurrentRange(Data(meteorologicalData), dataType, variable, day).t # "throw"

\* obs - fc of two cells: the number when both are numbers, else null.
CellDifference(obs, fc) ==
  IF obs.t = "num" /\ fc.t = "num" THEN Num(obs.n - fc.n) ELSE Null
\* The elementwise difference of two grids, of the shape of the obs grid; a
\* forecast cell that is missing gives null.
ElementwiseDifference(obsGrid, fcGrid) ==
  Arr([i \in 1..Length(obsGrid) |->
         Arr([j \in 1..Length(obsGrid.a[i]) |->
                CellDifference(obsGrid.a[i].a[j],
                               OptIndex(OptIndex(fcGrid, i - 1), j - 1))])])

\* C6 as stated: with a dataset loaded, getCurrentData returns none when the
\* obs grid or the forecast grid of the selected variable and day is absent,
\* whatever the dataType, and otherwise obs[variable][day] for obs,
\* forecast[variable][day] for forecast and the elementwise difference of the
\* two for difference.
C6_Dispatch ==
  meteorologicalData.t = "obj" =>
    LET obsGrid == OptIndex(Data(meteorologicalData).obs[variable], day)
        fcGrid == OptIndex(Data(meteorologicalData).forecast[variable], day)
    IN getCurrentData(Data(meteorologicalData), dataType, variable, day)
         = IF IsNullish(obsGrid) \/ IsNullish(fcGrid) THEN Null
           ELSE IF dataType = "obs" THEN obsGrid
           ELSE IF dataType = "forecast" THEN fcGrid
           ELSE ElementwiseDifference(obsGrid, fcGrid)

\* C7 as stated: the difference of every pair of obs and forecast grids of
\* the dataset has the shape of the obs grid and holds, cell by cell, obs
\* minus forecast when both are numbers and null when either is null, NaN or
\* missing; [[30,null],[28,26]] minus [[29,20],[null,25]] gives
\* [[1,null],[null,1]].
C7_DifferenceCells ==
  /\ calculateDifference(G2(Num(30), Null, Num(28), Num(26)),
                         G2(Num(29), Num(20), Null, Num(25)))
       = G2(Num(1), Null, Null, Num(1))
  /\ meteorologicalData.t = "obj" =>
       \A v \in Vars, d \in 0..MaxDay :
         LET obsGrid == OptIndex(Data(meteorologicalData).obs[v], d)
             fcGrid == OptIndex(Data(meteorologicalData).forecast[v], d)
         IN ~(IsNullish(obsGrid) \/ IsNullish(fcGrid))
              => calculateDifference(obsGrid, fcGrid) = ElementwiseDifference(obsGrid, fcGrid)

\* C8: access to the difference grid is idempotent (two getCurrentData calls
\* with dataType difference and no step in between return equal grids), and
\* no derived view and no render modifies the obs grids, the forecast grids
\* or the metadata of the loaded dataset: the object a load has stored keeps
\* the content it was parsed with.
C8_DifferenceIdempotent ==
  [][ /\ (dataType = "difference" /\ ret.view = "getCurrentData"
          /\ ret'.view = "getCurrentData") => ret'.grid = ret.grid
      /\ (ret'.view # "none" \/ canvas' # canvas)
           => /\ meteorologicalData'.t = "obj"
                   => Data(meteorologicalData') = Payload(meteorologicalData'.file)
              /\ meteorologicalData'.load = meteorologicalData.load
                   => Data(meteorologicalData') = Data(meteorologicalData)
    ]_vars

\* getCurrentData has returned a difference grid of a dataset that was
\* rendered.
C8_Witness ==
  /\ dataType = "difference"
  /\ ret.view = "getCurrentData"
  /\ ret.grid.t = "arr"
  /\ canvas.t = "drawn"

\* The non-null cell values of a grid.
NonNullCells(grid) ==
  {grid.a[c[1]].a[c[2]].n :
     c \in {c \in (1..Length(grid)) \X (1..2) :
              c[2] <= Length(grid.a[c[1]]) /\ grid.a[c[1]].a[c[2]].t = "num"}}

\* C9: for dataType difference and a difference grid with at least one
\* non-null cell, getCurrentRange returns min = floor(lo - 0.1 * (hi - lo))
\* and max = ceil(hi + 0.1 * (hi - lo)), lo and hi the smallest and largest
\* non-null cells of the current difference grid; lo = -2, hi = 8 gives
\* { min: -3, max: 9 }.
C9_DifferenceRangePadded ==
  LET grid == getCurrentData(Data(meteorologicalData), "difference", variable, day)
      range == getCurrentRange(Data(meteorologicalData), dataType, variable, day)
      lo == SetMin(NonNullCells(grid))
      hi == SetMax(NonNullCells(grid))
  IN (dataType = "difference" /\ grid.t = "arr" /\ NonNullCells(grid) # {}) =>
       /\ range.t = "obj" /\ range.min.t = "num" /\ range.max.t = "num"
       /\ 10 * range.min.n <= 10 * lo - (hi - lo)
       /\ 10 * lo - (hi - lo) < 10 * range.min.n + 10
       /\ 10 * range.max.n - 10 < 10 * hi + (hi - lo)
       /\ 10 * hi + (hi - lo) <= 10 * range.max.n
       /\ (lo = -2 /\ hi = 8) => range = Range(Num(-3), Num(9))
       /\ (ret.view = "getCurrentRange") => ret.range = range

\* getCurrentRange has returned the range of a difference grid that has a
\* null cell and whose other cells span -2 .. 8.
C9_Witness ==
  /\ dataType = "difference"
  /\ variable = "precip"
  /\ day = 0
  /\ ret.view = "getCurrentRange"
  /\ ret.range = Range(Num(-3), Num(9))

\* C10 as stated: for dataType difference and every difference grid, one
\* whose cells are all null included, getCurrentRange returns finite numbers
\* min and max with min <= max.
C10_RangeFinite ==
  LET grid == getCurrentData(Data(meteorologicalData), "difference", variable, day)
      range == getCurrentRange(Data(meteorologicalData), dataType, variable, day)
  IN (dataType = "difference" /\ grid.t = "arr") =>
       /\ range.t = "obj"
       /\ range.min.t = "num" /\ range.max.t = "num"
       /\ range.min.n <= range.max.n

\* C11 as stated: with a dataset loaded and dataType obs or forecast,
\* getCurrentRange returns exactly { min: metadata.variables[variable].min,
\* max: metadata.variables[variable].max }, a bound equal to 0 included,
\* whatever the day and the grids.
C11_StaticBounds ==
  meteorologicalData.t = "obj" /\ dataType \in {"obs", "forecast"} =>
    \A d \in 0..MaxDay :
      getCurrentRange(Data(meteorologicalData), dataType, variable, d)
        = Range(Num(Data(meteorologicalData).metadata.variables[variable].min),
                Num(Data(meteorologicalData).metadata.variables[variable].max))

\* The points the time series properties quantify over: the selected one,
\* grid points, and one whose row index lies outside the grid.
SeriesPoints == {selectedPoint, Point(-40, 110, 0, 0), Point(-10, 155, 1, 1),
                 Point(-10, 110, 6, 0)} \ {NoPoint}
\* Cell (r, c) of grid d of a variable, as a number or null: null when the
\* grid, the row or the cell is missing or the cell is null or NaN.
CellOrNull(var, d, r, c) ==
  IF /\ var.t = "arr" /\ d < Len(var.a)
     /\ var.a[d + 1].t = "arr" /\ r < Len(var.a[d + 1].a)
     /\ var.a[d + 1].a[r + 1].t = "arr" /\ c < Len(var.a[d + 1].a[r + 1].a)
     /\ var.a[d + 1].a[r + 1].a[c + 1].t = "num"
  THEN var.a[d + 1].a[r + 1].a[c + 1]
  ELSE Null

\* C12: with a dataset loaded, a point selected and the variable present in
\* obs and forecast, getTimeSeriesData returns obs, forecast and difference
\* sequences of length T = len(metadata.times) each, entry d belonging to
\* day d: a value that is missing (null, NaN, no grid for the day, an index
\* outside the grid) is null at its position, never dropped or shifted.
C12_SeriesLength ==
  meteorologicalData.t = "obj" =>
    \A v \in SelectableVars, p \in SeriesPoints :
      LET data == Data(meteorologicalData)
          series == getTimeSeriesData(data, v, p)
          T == Length(data.metadata.times)
      IN /\ series.t = "obj"
         /\ Len(series.obs) = T /\ Len(series.forecast) = T /\ Len(series.difference) = T
         /\ \A d \in 0..(T - 1) :
              /\ series.obs[d + 1] = CellOrNull(data.obs[v], d, p.latIdx, p.lonIdx)
              /\ series.forecast[d + 1] = CellOrNull(data.forecast[v], d, p.latIdx, p.lonIdx)
         /\ (ret.view = "getTimeSeriesData" /\ v = variable /\ p = selectedPoint)
              => ret.series = series

\* getTimeSeriesData has returned a series whose middle entry is null.
C12_Witness ==
  /\ ret.view = "getTimeSeriesData"
  /\ ret.series.t = "obj"
  /\ ret.series.obs = <<Num(10), Null, Num(12)>>

\* C13: in the time series at a fixed point, the difference entry of every
\* day is obs[d] - forecast[d] when both are non-null and null when either is
\* null; obs [10,null,12] and forecast [8,9,null] give [2,null,null].
C13_SeriesDifference ==
  meteorologicalData.t = "obj" =>
    \A v \in SelectableVars, p \in SeriesPoints :
      LET series == getTimeSeriesData(Data(meteorologicalData), v, p)
      IN /\ \A d \in 1..Len(series.difference) :
              series.difference[d] =
                IF series.obs[d].t = "null" \/ series.forecast[d].t = "null" THEN Null
                ELSE Num(series.obs[d].n - series.forecast[d].n)
         /\ (series.obs = <<Num(10), Null, Num(12)>>
              /\ series.forecast = <<Num(8), Num(9), Null>>)
              => series.difference = <<Num(2), Null, Null>>

\* getTimeSeriesData has returned the series of the example.
C13_Witness ==
  /\ ret.view = "getTimeSeriesData"
  /\ ret.series.t = "obj"
  /\ ret.series.obs = <<Num(10), Null, Num(12)>>
  /\ ret.series.forecast = <<Num(8), Num(9), Null>>
  /\ ret.series.difference = <<Num(2), Null, Null>>

\* Cell (r, c) of what getCurrentData returned, as a number or null.
GridCellOrNull(grid, r, c) ==
  IF /\ grid.t = "arr" /\ r < Len(grid.a)
     /\ grid.a[r + 1].t = "arr" /\ c < Len(grid.a[r + 1].a)
     /\ grid.a[r + 1].a[c + 1].t = "num"
  THEN grid.a[r + 1].a[c + 1]
  ELSE Null

\* C14 as stated: for every loaded dataset, variable, selected point (r, c)
\* and day d, the obs, forecast and difference entries of the time series
\* equal cell [r][c] of the grid getCurrentData returns for day d with
\* dataType obs, forecast and difference (a NaN or missing cell counting as
\* null), and are null when that grid is none.
C14_SeriesMatchesGrids ==
  meteorologicalData.t = "obj" =>
    \A v \in SelectableVars, p \in SeriesPoints :
      LET data == Data(meteorologicalData)
          series == getTimeSeriesData(data, v, p)
      IN \A d \in 0..(Length(data.metadata.times) - 1) :
           /\ series.obs[d + 1]
                = GridCellOrNull(getCurrentData(data, "obs", v, d), p.latIdx, p.lonIdx)
           /\ series.forecast[d + 1]
                = GridCellOrNull(getCurrentData(data, "forecast", v, d), p.latIdx, p.lonIdx)
           /\ series.difference[d + 1]
                = GridCellOrNull(getCurrentData(data, "difference", v, d), p.latIdx, p.lonIdx)

\* The canvas position of grid point (i, j) in renderMap, when it is a whole
\* number of pixels in both directions ([x |-> -1, y |-> -1] otherwise).
RenderedAt(metadata, i, j) ==
  LET px == latLonToPixel(metadata.lat.a[i + 1].n, metadata.lon.a[j + 1].n,
                          calculateBounds(metadata.lat, metadata.lon),
                          CanvasSize(metadata), RenderPadding)
  IN IF px.x.den > 0 /\ px.y.den > 0 /\ px.x.num % px.x.den = 0 /\ px.y.num % px.y.den = 0
     THEN [x |-> px.x.num \div px.x.den, y |-> px.y.num \div px.y.den]
     ELSE [x |-> 0 - 1, y |-> 0 - 1]

\* C15 as stated: for every grid point (i, j), a click at the canvas pixel
\* where renderMap places (lat[i], lon[j]) makes the click handler set
\* selectedPoint to {lat[i], lon[j], i, j}; the inverse projection of the
\* handler uses the bounds, the canvas size and the padding of the renderer.
C15_ClickInvertsRender ==
  [][ (selectedPoint' # selectedPoint /\ meteorologicalData.t = "obj") =>
        LET metadata == Data(meteorologicalData).metadata
        IN \A i \in 0..(Length(metadata.lat) - 1), j \in 0..(Length(metadata.lon) - 1) :
             LET at == RenderedAt(metadata, i, j)
             IN (at.x \in ClickXs /\ at.y \in ClickYs /\ HandleClick(at.x, at.y)) =>
                  selectedPoint' = Point(metadata.lat.a[i + 1].n, metadata.lon.a[j + 1].n, i, j)
    ]_vars

\* C17: for every non-empty coords and every target, findNearestIndex returns
\* an index i of coords with |coords[i] - target| minimal over all indices,
\* the lowest of the indices that are equally near (index 0 when the target
\* is NaN or infinite, no distance then being below another); coords
\* [0,10,20,30] and target 17 give index 2.
C17_NearestIndex ==
  call.fn = "findNearestIndex" =>
    LET n == Length(call.coords)
        dist(k) == Abs(call.coords.a[k + 1].n * call.target.den - call.target.num)
    IN /\ call.index \in 0..(n - 1)
       /\ \A k \in 0..(n - 1) : dist(call.index) <= dist(k)
       /\ \A k \in 0..(call.index - 1) : dist(k) > dist(call.index)
       /\ (call.coords = Arr(<<Num(0), Num(10), Num(20), Num(30)>>)
            /\ call.target = Rat(17, 1)) => call.index = 2

\* findNearestIndex has returned index 2 in the example.
C17_Witness ==
  /\ call.fn = "findNearestIndex"
  /\ call.coords = Arr(<<Num(0), Num(10), Num(20), Num(30)>>)
  /\ call.target = Rat(17, 1)
  /\ call.index = 2

\* The fillRect calls among the calls of a frame, in order.
Fills(ops) == SelectSeq(ops, LAMBDA o : o.op = "fillRect")
\* Whether cell (i, j) of a grid holds a number.
HasValue(grid, i, j) ==
  /\ grid.t = "arr" /\ i < Len(grid.a)
  /\ grid.a[i + 1].t = "arr" /\ j < Len(grid.a[i + 1].a)
  /\ grid.a[i + 1].a[j + 1].t = "num"
\* The rectangle between the projections of (lat[i], lon[j]) and
\* (lat[i+1], lon[j+1]), in the colour of value.
CellRect(metadata, i, j, value, v, dt, range) ==
  LET size == CanvasSize(metadata)
      bounds == calculateBounds(metadata.lat, metadata.lon)
      a == latLonToPixel(metadata.lat.a[i + 1].n, metadata.lon.a[j + 1].n, bounds, size,
                         RenderPadding)
      b == latLonToPixel(metadata.lat.a[i + 2].n, metadata.lon.a[j + 2].n, bounds, size,
                         RenderPadding)
  IN [op |-> "fillRect", x |-> a.x, y |-> b.y,
      w |-> Rat(b.x.num - a.x.num, a.x.den), h |-> Rat(a.y.num - b.y.num, a.y.den),
      color |-> getColor(value, v, dt, range), path |-> <<>>]
\* A grid with every cell of row M-1 and of column N-1 set to cell.
WithLastRowAndColumn(grid, M, N, cell) ==
  Arr([i \in 1..Len(grid.a) |->
         IF grid.a[i].t # "arr" THEN grid.a[i]
         ELSE Arr([j \in 1..Len(grid.a[i].a) |->
                     IF i = M \/ j = N THEN cell ELSE grid.a[i].a[j]])])

\* C18: a render that returns has filled exactly one rectangle for each cell
\* (i, j), i < M-1 and j < N-1, whose value is a number: the rectangle between
\* the projections of (lat[i], lon[j]) and (lat[i+1], lon[j+1]), in the colour
\* getColor gives the value; it has filled nothing else, so nothing for a
\* null or NaN cell, and the values of the last row and of the last column of
\* the grid do not change what is drawn.
C18_CellFills ==
  (canvas.t = "drawn" /\ meteorologicalData.t = "obj") =>
    LET data == Data(meteorologicalData)
        metadata == data.metadata
        grid == getCurrentData(data, dataType, variable, day)
        range == getCurrentRange(data, dataType, variable, day)
        fills == Fills(canvas.ops)
        cells == { c \in (0..(Length(metadata.lat) - 2)) \X (0..(Length(metadata.lon) - 2)) :
                     HasValue(grid, c[1], c[2]) }
        rect(c) == CellRect(metadata, c[1], c[2], grid.a[c[1] + 1].a[c[2] + 1],
                            variable, dataType, range)
    IN /\ Len(fills) = Cardinality(cells)
       /\ \A c \in cells : Cardinality({k \in 1..Len(fills) : fills[k] = rect(c)}) = 1
       /\ \A cell \in {Null, Num(7)} :
            renderMap(CanvasSize(metadata), WithLastRowAndColumn(grid, Length(metadata.lat), Length(metadata.lon), cell),
                      metadata,
                      variable, dataType, range, Boundary(australiaBoundary)).ops
              = canvas.ops

\* A render of the six-row grid has filled some cells and skipped others.
C18_Witness ==
  /\ canvas.t = "drawn"
  /\ served.data = "tall"
  /\ Len(Fills(canvas.ops)) \in 2..4

\* Every ring of every polygon of every feature of a boundary.
AllRings(boundary) == Flatten(boundary.polys) \o Flatten(boundary.rest)

\* C19 as stated: in a render with a boundary present, every ring of every
\* polygon of the boundary (Polygon or MultiPolygon, holes included, over the
\* whole collection of features) is stroked exactly once, and every stroke
\* comes after the last cell fill of the render.
C19_RingsStroked ==
  (canvas.t = "drawn" /\ australiaBoundary.t = "obj") =>
    LET metadata == Data(meteorologicalData).metadata
        rings == AllRings(Boundary(australiaBoundary))
        stroke(r) == drawRing(r, calculateBounds(metadata.lat, metadata.lon),
                              CanvasSize(metadata), RenderPadding)
    IN /\ \A n \in 1..Len(rings) :
            Cardinality({k \in 1..Len(canvas.ops) : canvas.ops[k] = stroke(rings[n])}) = 1
       /\ Cardinality({k \in 1..Len(canvas.ops) : canvas.ops[k].op = "stroke"}) = Len(rings)
       /\ \A k, l \in 1..Len(canvas.ops) :
            (canvas.ops[k].op = "stroke" /\ canvas.ops[l].op = "fillRect") => l < k

\* C20: render is idempotent and history-free: what the canvas holds after
\* a render is what renderMap draws for the grid, metadata, variable,
\* dataType, range and boundary of that render, whichever renders with other
\* inputs the same canvas has had before, and a further render with the same
\* inputs leaves the canvas as it is.
C20_RenderIdempotent ==
  (canvas.t = "drawn" /\ meteorologicalData.t = "obj") =>
    LET data == Data(meteorologicalData)
        frame == renderMap(CanvasSize(data.metadata),
                           getCurrentData(data, dataType, variable, day), data.metadata,
                           variable, dataType,
                           getCurrentRange(data, dataType, variable, day),
                           Boundary(australiaBoundary))
    IN /\ frame.t = "drawn"
       /\ canvas.ops = frame.ops
       /\ MapCanvasEffect(canvas, data, Boundary(australiaBoundary), dataType, variable, day)
            = canvas

\* The canvas holds a render that followed renders of other variables, data
\* types and days on the same canvas.
C20_Witness ==
  /\ canvas.t = "drawn"
  /\ Len(canvas.ops) > 0
  /\ dataType = "difference"
  /\ variable = "precip"
  /\ day = 1

\* C16 as stated: with equal bounds, canvas size and padding, maxLat >
\* minLat, maxLon > minLon and a drawing area of positive width and height,
\* latLonToPixel(pixelToLatLon(x, y)) equals (x, y) for every pixel and
\* pixelToLatLon(latLonToPixel(lat, lon)) equals (lat, lon) for every point
\* inside the bounds.
C16_RoundTrip ==
  call.fn \in {"pixelRoundTrip", "latLonRoundTrip"} =>
    call.back = <<FromInt(call.at[1]), FromInt(call.at[2])>>

\* Whether double d is within 2^-20 (less than 1e-6) of integer n.
Near(d, n) ==
  LET diff == DSub(d, FromInt(n))
  IN diff.m = <<>> \/ BitLen(diff.m) + diff.e <= 0 - 20

\* C16, amended: under the same conditions each round trip returns its
\* input up to the rounding of the arithmetic: every coordinate of
\* latLonToPixel(pixelToLatLon(x, y)) and of
\* pixelToLatLon(latLonToPixel(lat, lon)) is within 1e-6 of the coordinate
\* it started from.
C16_RoundTripWithinRounding ==
  call.fn \in {"pixelRoundTrip", "latLonRoundTrip"} =>
    Near(call.back[1], call.at[1]) /\ Near(call.back[2], call.at[2])

\* A round trip from pixel (40, 21) has come back beside where it started.
C16_Witness ==
  /\ call.fn = "pixelRoundTrip"
  /\ call.at = <<40, 21>>
  /\ call.padding = ClickPadding
  /\ call.back[1] = FromInt(40)
  /\ call.back[2] # FromInt(21)

\* C21: later selection wins: on a loaded store every change of dataType,
\* variable or day is followed, before the next event is handled, by one run
\* of the effect of MapCanvas for the new selection: in no state between two
\* events does the canvas of the dashboard hold anything but the render of
\* the current (dataType, variable, day) with the current grid and range,
\* so none computed for an earlier selection.
C21_LaterSelectionWins ==
  (meteorologicalData.t = "obj" /\ Mounted) =>
    LET data == Data(meteorologicalData)
    IN canvas = EffectBody(CanvasSize(data.metadata),
                           getCurrentData(data, dataType, variable, day),
                           getCurrentRange(data, dataType, variable, day),
                           data.metadata, Boundary(australiaBoundary), dataType, variable)

\* The canvas holds the render of a selection reached by changes of all
\* three fields.
C21_Witness ==
  /\ canvas.t = "drawn"
  /\ Len(canvas.ops) > 0
  /\ dataType = "forecast"
  /\ variable = "rh"
  /\ day = 2

\* C22: a missing grid is recovered locally: when a change of the selection
\* on a loaded dataset names a variable or a day whose obs or forecast grid
\* is absent, getCurrentData returns none, the canvas is left blank (no cell
\* painted, nothing of the previous selection kept) and the error of the
\* store stays unset; a later change to a selection whose grids exist is
\* rendered.
C22_MissingGridRecovered ==
  [][ (meteorologicalData.t = "obj" /\ <<dataType, variable, day>>' # <<dataType, variable, day>>)
        => LET data == Data(meteorologicalData)
               shaped(v) == GridShaped(Index(data.obs[v], day'), Length(data.metadata.lat),
                                       Length(data.metadata.lon))
                            /\ GridShaped(Index(data.forecast[v], day'),
                                          Length(data.metadata.lat), Length(data.metadata.lon))
               absent(v) == Falsy(Index(data.obs[v], day')) \/ Falsy(Index(data.forecast[v], day'))
           IN /\ absent(variable')
                   => /\ getCurrentData(data, dataType', variable', day') = Null
                      /\ canvas'.t = "blank" /\ canvas'.ops = <<>>
                      /\ error' = NoError /\ UNCHANGED store
              /\ (shaped(variable') /\ canvas.t = "blank") => canvas'.t = "drawn"
    ]_vars

\* The canvas is blank on a loaded dataset whose forecast grid of the day is
\* absent.
C22_Witness ==
  /\ meteorologicalData.t = "obj"
  /\ variable = "tmin" /\ day = 2
  /\ Falsy(Index(Data(meteorologicalData).forecast[variable], day))
  /\ canvas.t = "blank"
  /\ error = NoError

\* C23: no render before the load has resolved: in every reachable state
\* where the dataset is absent, or isLoading is true, or the store holds the
\* error of a failed load, the map, the controls and the chart are not
\* mounted: renderMap has drawn nothing and no derived view has been called.
C23_NoRenderBeforeLoad ==
  (meteorologicalData.t = "null" \/ isLoading \/ error # NoError) =>
    /\ ~Mounted
    /\ canvas.ops = <<>>
    /\ ret.view = "none"
    /\ meteorologicalData.t = "null" => canvas = Unmounted

\* A load has failed and left the store without dataset.
C23_Witness ==
  /\ meteorologicalData.t = "null"
  /\ ~isLoading
  /\ error # NoError
  /\ canvas = Unmounted

\* C24 as stated: once an invocation of loadData has been superseded by a
\* later call of loadData, the success or the failure of its fetches changes
\* none of meteorologicalData, australiaBoundary, isLoading and error, so
\* that of two overlapping loads the later one decides the store whatever
\* the order in which the fetches settle.
C24_AbandonedLoadInert ==
  [][ \A k \in 1..(Len(loads) - 1) :
        (Len(loads') = Len(loads) /\ loads'[k] # loads[k]) => UNCHANGED store
    ]_vars

\* C25: for the difference data type and a range whose larger magnitude absMax
\* is positive, getColorScale pairs the nine colours of the diverging ramp
\* with nine breakpoints, the k-th at (k - 5) * absMax / 4: evenly spaced from
\* -absMax to +absMax and symmetric about 0, which is the middle breakpoint
\* and so carries the neutral middle colour; the range {-3, 9} gives -9,
\* -6.75, -4.5, -2.25, 0, 2.25, 4.5, 6.75, 9.
RatEq(x, y) == x.den # 0 /\ y.den # 0 /\ x.num * y.den = y.num * x.den
ScaleAbsMax(range) ==
  IF Abs(range.min.n) > Abs(range.max.n) THEN Abs(range.min.n) ELSE Abs(range.max.n)
C25_DivergingDomain ==
  (/\ call.fn = "getColorScale"
   /\ call.scaleOf[2] = "difference"
   /\ call.scaleOf[3].t = "obj"
   /\ ScaleAbsMax(call.scaleOf[3]) > 0) =>
    LET absMax == ScaleAbsMax(call.scaleOf[3])
        domain == call.scale.domain.a
    IN /\ Len(call.scale.colors) = 9
       /\ Len(domain) = 9
       /\ \A k \in 1..9 : RatEq(domain[k], Rat((k - 5) * absMax, 4))
       /\ \A k \in 1..9 : RatEq(domain[k], RatNeg(domain[10 - k]))
       /\ \A k \in 1..8 : domain[k].num * domain[k + 1].den < domain[k + 1].num * domain[k].den
       /\ RatEq(domain[5], Rat(0, 1))
       /\ call.scale.colors[5] = "#f7f7f7"
       /\ (call.scaleOf[3] = Range(Num(0 - 3), Num(9)) =>
             \A k \in 1..9 :
               RatEq(domain[k], Rat(<<0 - 900, 0 - 675, 0 - 450, 0 - 225, 0,
                                      225, 450, 675, 900>>[k], 100)))
C25_Witness ==
  /\ call.fn = "getColorScale"
  /\ call.scaleOf = <<"tmax", "difference", Range(Num(0 - 3), Num(9))>>
  /\ RatEq(call.scale.domain.a[2], Rat(0 - 27, 4))
  /\ RatEq(call.scale.domain.a[9], Rat(9, 1))
Completes(k) == k <= Len(loads) /\ loads[k].pc = "await" /\ loads'[k].pc = "done"
C27_EveryLoadCompletes ==
  \A k \in 1..MaxLoads : [](k <= Len(loads) => <>(k <= Len(loads) /\ loads[k].pc = "done"))
C27_Outcome ==
  \A k \in 1..MaxLoads :
    Completes(k) =>
      /\ ~isLoading'
      /\ \/ /\ meteorologicalData'.t = "obj" /\ meteorologicalData'.load = k
            /\ australiaBoundary'.t = "obj"
            /\ error' = NoError
         \/ error'.t = "str" /\ error'.s # ""
C27_SettlesOrStaysLoading ==
  /\ C27_EveryLoadCompletes
  /\ [][C27_Outcome]_vars
  /\ [][\A k \in 1..MaxLoads :
          Completes(k) => (loads'[k].meteo # "pending" /\ loads'[k].boundary # "pending")]_vars
\* C27 as the code has it: an invocation runs the code after its await before
\* both fetches have settled exactly when one of them has failed, and then it
\* stores the message of that failure; short of a failure it changes nothing
\* of the store while one of its fetches is pending.
C27_SettlesOrFailsFast ==
  /\ C27_EveryLoadCompletes
  /\ [][C27_Outcome]_vars
  /\ [][\A k \in 1..MaxLoads :
          /\ (Completes(k) /\ (loads'[k].meteo = "pending" \/ loads'[k].boundary = "pending"))
               => (error'.t = "str" /\ meteorologicalData' = meteorologicalData)
          /\ (k <= Len(loads) /\ Len(loads') = Len(loads) /\ loads'[k] # loads[k]
                /\ ~Completes(k))
               => UNCHANGED store]_vars
C27_Witness ==
  /\ loads[1].pc = "done"
  /\ loads[1].meteo = "settled"
  /\ loads[1].boundary = "pending"
  /\ Len(loads) = 1
  /\ ~isLoading
  /\ error = Str("HTTP error! status: 404")
\* C28: a selected point, which only a click on the loaded map stores, has
\* latIdx in [0, M-1] and lonIdx in [0, N-1], lat = lats[latIdx] and
\* lon = lons[lonIdx]; and a click at any position of the canvas, in the
\* drawn area or in the padding around it, gives such a point, never null.
OnGrid(point, metadata) ==
  /\ point.t = "obj"
  /\ point.latIdx \in 0..(Length(metadata.lat) - 1)
  /\ point.lonIdx \in 0..(Length(metadata.lon) - 1)
  /\ point.lat = metadata.lat.a[point.latIdx + 1].n
  /\ point.lon = metadata.lon.a[point.lonIdx + 1].n
\* Positions over the whole canvas: in the padding on every side, on the
\* edges of the drawn area and inside it.
CanvasXs == ClickXs \cup {0, 40, 190, 360}
CanvasYs == ClickYs \cup {0, 20, 100, 240}
C28_ClickSelectsGridPoint ==
  /\ selectedPoint.t # "null" =>
        (meteorologicalData.t = "obj" /\ OnGrid(selectedPoint, Data(meteorologicalData).metadata))
  /\ (Mounted /\ meteorologicalData.t = "obj") =>
        \A x \in CanvasXs, y \in CanvasYs :
          OnGrid(ClickedPoint(x, y, Data(meteorologicalData).metadata.lat,
                              Data(meteorologicalData).metadata.lon),
                 Data(meteorologicalData).metadata)
C28_Witness ==
  /\ selectedPoint.t = "obj"
  /\ meteorologicalData.t = "obj"
  /\ selectedPoint.lonIdx = 0
  /\ selectedPoint.latIdx = Length(Data(meteorologicalData).metadata.lat) - 1
  /\ selectedPoint.latIdx = 5
\* C29: a step that changes day or dataType (setDay, setDataType) leaves the
\* result of getTimeSeriesData as it was; a step that changes selectedPoint
\* (setSelectedPoint through a click, clearSelectedPoint) leaves the results
\* of getCurrentData and getCurrentRange as they were and leaves the canvas
\* as it is, the render effect not run.
C29_ViewsFrame ==
  [][/\ (<<day, dataType>>' # <<day, dataType>>)
          => getTimeSeriesData(Data(meteorologicalData'), variable', selectedPoint')
               = getTimeSeriesData(Data(meteorologicalData), variable, selectedPoint)
     /\ (selectedPoint' # selectedPoint)
          => /\ getCurrentData(Data(meteorologicalData'), dataType', variable', day')
                  = getCurrentData(Data(meteorologicalData), dataType, variable, day)
             /\ getCurrentRange(Data(meteorologicalData'), dataType', variable', day')
                  = getCurrentRange(Data(meteorologicalData), dataType, variable, day)
             /\ canvas' = canvas
             /\ <<store, dataType, variable, day>>' = <<store, dataType, variable, day>>]_vars
C29_Witness ==
  /\ selectedPoint.t = "obj"
  /\ day = 2
  /\ dataType = "difference"
  /\ canvas.t = "drawn"
  /\ ret.view = "getTimeSeriesData"
  /\ ret.series # NoSeries
\* C30: whenever the difference grid on screen has a cell that is a number
\* and getCurrentRange returns its range, the domain getColorScale builds
\* from that range is strictly increasing (absMax > 0) and every such cell
\* lies between its first and its last breakpoint, also when obs equals
\* forecast at every cell.
RatLess(x, y) == x.den > 0 /\ y.den > 0 /\ x.num * y.den < y.num * x.den
C30_DomainCoversGrid ==
  (Mounted /\ meteorologicalData.t = "obj" /\ dataType = "difference") =>
    LET data == Data(meteorologicalData)
        grid == getCurrentData(data, dataType, variable, day)
        range == getCurrentRange(data, dataType, variable, day)
    IN (grid.t = "arr" /\ range.t = "obj" /\ ScannedCells(grid) # {}) =>
         LET domain == getColorScale(variable, dataType, range).domain.a
         IN /\ \A k \in 1..(Len(domain) - 1) : RatLess(domain[k], domain[k + 1])
            /\ \A value \in ScannedCells(grid) :
                 /\ ~RatLess(Rat(value, 1), domain[1])
                 /\ ~RatLess(domain[Len(domain)], Rat(value, 1))
====
